---- MODULE Spec2Model ----
(***************************************************************************)
(* Target-side loader of the ARINC 615A upload dialog (modulo_bc).         *)
(* The model follows the load-session state machine of                     *)
(* components/state_machine, the TFTP routines of components/tftp, the     *)
(* authenticator of components/auth, the LUR parser of components/arinc    *)
(* and the firmware files of components/storage.                           *)
(*                                                                         *)
(* Byte strings (file names, part numbers, LUR images) are sequences of    *)
(* byte values.  A firmware payload is one symbol of FwPayload; SHA-256 is *)
(* modelled by a streaming fold that is injective on the bounded payload   *)
(* sequences and never yields the all-zero digest.                         *)
(***************************************************************************)
EXTENDS Integers, Sequences, FiniteSets, TLC

----------------------------------------------------------------------------
(* Bounds of the model *)

\* frames the loader sends to one receive loop before it falls silent
MaxFrames == 3
\* how many of the last calls of the run loop are kept
MaxCalls == 5

----------------------------------------------------------------------------
(* Program constants *)

ST_INIT        == "ST_INIT"
ST_OPERATIONAL == "ST_OPERATIONAL"
ST_MAINT_WAIT  == "ST_MAINT_WAIT"
ST_UPLOAD_PREP == "ST_UPLOAD_PREP"
ST_UPLOADING   == "ST_UPLOADING"
ST_VERIFY      == "ST_VERIFY"
ST_SAVE        == "ST_SAVE"
ST_TEARDOWN    == "ST_TEARDOWN"
ST_ERROR       == "ST_ERROR"

fsm_state_t == {ST_INIT, ST_OPERATIONAL, ST_MAINT_WAIT, ST_UPLOAD_PREP,
                ST_UPLOADING, ST_VERIFY, ST_SAVE, ST_TEARDOWN, ST_ERROR}

MAX_UPLOAD_FAILURES == 2
BLOCK_SIZE          == 512
TFTP_RETRY_LIMIT    == 1
OP_RRQ   == 1
OP_WRQ   == 2
OP_DATA  == 3
OP_ACK   == 4
OP_ERROR == 5
BC_KEY_SIZE  == 32
GSE_KEY_SIZE == 32
MIN_AVAILABLE_SPACE == 500000
PN_OFFSET == 20
PN_SIZE   == 20
\* sizeof(lur_buf) in handle_wrq and the char arrays of lur_data_t
LUR_BUF_SIZE == 256
\* upload_failure_count is a uint8_t
UINT8_MOD == 256

ESP_OK          == "ESP_OK"
ESP_FAIL        == "ESP_FAIL"
ESP_ERR_TIMEOUT == "ESP_ERR_TIMEOUT"

\* the keys written by auth_write_static_keys, as opaque 32-byte values
BC_STATIC_KEY    == "BC_SECRET_KEY_32_BYTES_EXACTLY!!"
GSE_EXPECTED_KEY == "GSE_SECRET_KEY_32_BYTES_EXACTLY!"
\* 32 zero bytes of a key buffer; a partly read key; a key that is not the expected one
ZeroKey    == "ZERO_KEY"
PartialKey == "PARTIAL_KEY"
WrongKey   == "WRONG_KEY"

\* "EMB-SW-007-137-045" .. "-047" as bytes
SUPPORTED_PNS ==
  { <<69,77,66,45,83,87,45,48,48,55,45,49,51,55,45,48,52,53>>,
    <<69,77,66,45,83,87,45,48,48,55,45,49,51,55,45,48,52,54>>,
    <<69,77,66,45,83,87,45,48,48,55,45,49,51,55,45,48,52,55>> }

\* the 20 bytes of the hardware part number, and 20 other bytes
HW_PN    == "HW_PN"
OTHER_PN == "OTHER_PN"

\* loader addresses: the zeroed sockaddr, the loader's main port, its transfer port
ADDR_ZERO == "ADDR_ZERO"
GSE_MAIN  == "GSE_MAIN"
GSE_TID   == "GSE_TID"

----------------------------------------------------------------------------
(* Byte-string helpers *)

ZeroBytes(k) == [i \in 1..k |-> 0]

\* the C string held in a char array: the bytes before the first NUL
CStr(arr) ==
  LET nul == {i \in 1..Len(arr) : arr[i] = 0}
      end == IF nul = {} THEN Len(arr)
             ELSE (CHOOSE i \in nul : \A j \in nul : i <= j) - 1
  IN SubSeq(arr, 1, end)

\* strstr(hay, needle) != NULL
StrStr(hay, needle) ==
  \E i \in 1..(Len(hay) - Len(needle) + 1) :
     SubSeq(hay, i, i + Len(needle) - 1) = needle

\* memcpy(dst, src, k); dst[k] = '\0'  (1-based: dst[k+1])
CopyStr(dst, src, k) ==
  [i \in 1..Len(dst) |-> IF i <= k THEN src[i] ELSE IF i = k + 1 THEN 0 ELSE dst[i]]

DOT_LUI == <<46, 76, 85, 73>>
DOT_LUR == <<46, 76, 85, 82>>

----------------------------------------------------------------------------
(* SHA-256 (mbedtls), as a streaming fold over payload symbols *)

\* the firmware payloads the loader may send; bytes [20..40) are field pn
FwPayload == <<
  [len |-> 512, pn |-> HW_PN],
  [len |-> 100, pn |-> HW_PN],
  [len |-> 100, pn |-> OTHER_PN],
  [len |-> 20,  pn |-> OTHER_PN],
  [len |-> 0,   pn |-> OTHER_PN] >>

\* symbols of file contents that no transfer of the model produces:
\* the image installed before, a staging file left by an interrupted load
OLD_IMAGE == Len(FwPayload) + 1
LEFTOVER  == Len(FwPayload) + 2
ShaRadix  == Len(FwPayload) + 3

\* 32 zero bytes; 32 bytes that are neither zero nor a digest
Zero32 == 0
Junk32 == Zero32 - 1

mbedtls_sha256_starts == 0
\* fault injection: an update that absorbs nothing
mbedtls_sha256_update_none(ctx, sym, len) == ctx

\* update with a payload of len bytes: no bytes, no change
mbedtls_sha256_update(ctx, sym, len) ==
  IF len = 0 THEN ctx ELSE ctx * ShaRadix + sym
mbedtls_sha256_finish(ctx) == ctx + 1

RECURSIVE ShaFold(_, _)
ShaFold(ctx, data) ==
  IF data = <<>> THEN ctx
  ELSE ShaFold(ctx * ShaRadix + Head(data), Tail(data))
\* SHA-256 of the bytes of a file
Sha256(data) == mbedtls_sha256_finish(ShaFold(mbedtls_sha256_starts, data))

----------------------------------------------------------------------------
(* components/arinc *)

Min(a, b) == IF a < b THEN a ELSE b

\* big-endian bytes to a number and back
Ntohs(b) == b[1] * 256 + b[2]
Htons(v) == << (v \div 256) % 256, v % 256 >>
Ntohl(b) == ((b[1] * 256 + b[2]) * 256 + b[3]) * 256 + b[4]
Htonl(v) == << (v \div 16777216) % 256, (v \div 65536) % 256, (v \div 256) % 256, v % 256 >>

\* lur_data_t after memset(0)
ZeroLur ==
  [ file_length |-> ZeroBytes(4), protocol_version |-> ZeroBytes(2),
    num_header_files |-> ZeroBytes(2),
    header_file_length |-> 0, header_filename |-> ZeroBytes(LUR_BUF_SIZE),
    load_part_number_length |-> 0, load_part_number |-> ZeroBytes(LUR_BUF_SIZE) ]

\* parse_lur(buf, len, out) with len = Len(buf): the return code and *out
\* fault injection: a parse_lur that accepts every buffer
parse_lur_accept(buf, out) == [rc |-> 0, out |-> out]

parse_lur(buf, out) ==
  LET len == Len(buf)
      bad(o) == [rc |-> -1, out |-> o]
  IN
  IF len < 8 THEN bad(out)
  ELSE
    LET file_length == Ntohl(SubSeq(buf, 1, 4))
        proto       == SubSeq(buf, 5, 6)
        num_headers == Ntohs(SubSeq(buf, 7, 8))
        remaining0  == len - 8
    IN
    IF num_headers = 0 THEN bad(out)
    ELSE IF remaining0 < 1 THEN bad(out)
    ELSE
      LET header_len == buf[9]
          remaining1 == remaining0 - 1
      IN
      IF header_len > remaining1 THEN bad(out)
      ELSE
        LET hlen == Min(header_len, LUR_BUF_SIZE - 1)
            out1 == [out EXCEPT
                       !.header_filename = CopyStr(@, SubSeq(buf, 10, 9 + hlen), hlen),
                       !.header_file_length = header_len]
            p2         == 10 + header_len
            remaining2 == remaining1 - header_len
        IN
        IF remaining2 < 1 THEN bad(out1)
        ELSE
          LET pn_len     == buf[p2]
              remaining3 == remaining2 - 1
          IN
          IF pn_len > remaining3 THEN bad(out1)
          ELSE
            LET plen == Min(pn_len, LUR_BUF_SIZE - 1)
                out2 == [out1 EXCEPT
                           !.load_part_number =
                              CopyStr(@, SubSeq(buf, p2 + 1, p2 + plen), plen),
                           !.load_part_number_length = pn_len,
                           !.file_length = Htonl(file_length),
                           !.protocol_version = proto,
                           !.num_header_files = Htons(num_headers)]
            IN [rc |-> 0, out |-> out2]

\* parse_lur(buf, len, out): how many bytes from buf it has read when it returns
\* (the highest p + size of a load through p or of a memcpy from p)
parse_lur_read_end(buf) ==
  LET len == Len(buf) IN
  IF len < 8 THEN 0
  ELSE IF Ntohs(SubSeq(buf, 7, 8)) = 0 THEN 8
  ELSE IF len - 8 < 1 THEN 8
  ELSE
    LET header_len == buf[9]
        hlen       == Min(header_len, LUR_BUF_SIZE - 1)
    IN
    IF header_len > len - 9 THEN 9
    ELSE IF len - 9 - header_len < 1 THEN 9 + hlen
    ELSE
      LET pn_len == buf[10 + header_len]
          plen   == Min(pn_len, LUR_BUF_SIZE - 1)
      IN
      IF pn_len > len - 10 - header_len THEN 10 + header_len
      ELSE 10 + header_len + plen

\* init_lus: -1 unless ratio has 3 characters; else the record
\* fault injection: an init_lus that writes counter 0 whatever it is given
init_lus_counter0(status_code, description, counter, ratio) ==
  IF Len(ratio) # 3 THEN [rc |-> -1, lus |-> <<>>]
  ELSE [rc |-> 0,
        lus |-> [status_code |-> Htons(status_code), description |-> description,
                 counter |-> Htons(0), load_list_ratio |-> ratio]]

init_lus(status_code, description, counter, ratio) ==
  IF Len(ratio) # 3 THEN [rc |-> -1, lus |-> <<>>]
  ELSE [rc |-> 0,
        lus |-> [status_code |-> Htons(status_code), description |-> description,
                 counter |-> Htons(counter), load_list_ratio |-> ratio]]

ARINC_STATUS_OP_ACCEPTED_NOT_STARTED == 1
ARINC_STATUS_OP_COMPLETED_OK == 3
RATIO_000 == <<48, 48, 48>>
RATIO_100 == <<49, 48, 48>>

\* is_pn_supported(pn): strcmp against each entry of SUPPORTED_PNS
\* fault injection: an allow-list that accepts every part number
is_pn_supported_any(pn) == TRUE

is_pn_supported(pn) == \E s \in SUPPORTED_PNS : CStr(pn) = s

----------------------------------------------------------------------------
(* LUR images the loader may send as DATA payloads *)

LurImage(num_headers, name, pn_len, pn) ==
  LET body == Htons(num_headers) \o <<Len(name)>> \o name \o <<pn_len>> \o pn
  IN Htonl(6 + Len(body)) \o <<65, 52>> \o body

\* "fw.bin"
FW_NAME == <<102, 119, 46, 98, 105, 110>>
\* "UNKNOWN-001"
UNKNOWN_PN == <<85, 78, 75, 78, 79, 87, 78, 45, 48, 48, 49>>
SOME_SUPPORTED_PN == <<69,77,66,45,83,87,45,48,48,55,45,49,51,55,45,48,52,53>>

LurPayload == <<
  LurImage(1, FW_NAME, Len(SOME_SUPPORTED_PN), SOME_SUPPORTED_PN),
  LurImage(1, FW_NAME, Len(UNKNOWN_PN), UNKNOWN_PN),
  LurImage(0, FW_NAME, Len(SOME_SUPPORTED_PN), SOME_SUPPORTED_PN),
  LurImage(1, FW_NAME, Len(SOME_SUPPORTED_PN) + 1, SOME_SUPPORTED_PN),
  <<>>,
  ZeroBytes(BLOCK_SIZE) >>

----------------------------------------------------------------------------
(* components/tftp: what one recvfrom may return *)

\* recvfrom < 0 with errno EAGAIN/EWOULDBLOCK, and with another errno
RX_TIMEOUT == [k |-> "timeout"]
RX_ERROR   == [k |-> "error"]

\* answers to a packet the target sent and waits an ACK for: a timeout, an error,
\* a frame of at least 4 bytes, or a datagram of n < 4 bytes (n = 0: nothing,
\* n = 2: only the opcode) that overwrites only the first n bytes of the buffer
AckRx == { RX_TIMEOUT, RX_ERROR } \cup
         { [k |-> "pkt", opcode |-> o, block |-> b] : o \in {OP_ACK, OP_DATA}, b \in {0, 1} } \cup
         { [k |-> "runt", n |-> 0, opcode |-> 0], [k |-> "runt", n |-> 2, opcode |-> OP_ACK] }

\* the opcode and block fields of the local `tftp_packet_t ack`; it is not
\* initialized, so before the first reception it holds whatever the stack held
AckBuf == [opcode : {0, OP_ACK}, block : {0, 1}]

\* recvfrom(sock, &ack, sizeof(ack), ...) >= 0: the bytes received overwrite the
\* start of the buffer
RecvAck(buf, r) ==
  IF r.k = "pkt" THEN [opcode |-> r.opcode, block |-> r.block]
  ELSE IF r.n >= 2 THEN [buf EXCEPT !.opcode = r.opcode]
  ELSE buf

\* what a transfer did, in order: a packet handed to sendto with success (tx), and
\* what a recvfrom returned (rx)
EvTx(what, block) == [e |-> "tx", what |-> what, block |-> block]
EvRx(r) == [e |-> "rx", r |-> r]

\* the outcomes of the successive sendto calls of one transfer: all succeed, or
\* the i-th fails
SendOutcomes(k) ==
  { [i \in 1..k |-> TRUE] } \cup { [i \in 1..k |-> i # j] : j \in 1..k }

\* the retry loop of handle_rrq (lines 106-138) and of make_wrq (lines 306-331 and
\* 360-385) for the outstanding packet pkt.  w: rx and sends still to come, the
\* ack buffer, the log.  Result: w afterwards and got (a datagram was received)
RECURSIVE tftp_wait_ack(_, _, _)
tftp_wait_ack(w, pkt, retries) ==
  LET r  == Head(w.rx)
      w1 == [w EXCEPT !.rx = Tail(@), !.log = Append(@, EvRx(r))]
  IN
  IF r.k \in {"pkt", "runt"}
    THEN [w1 EXCEPT !.buf = RecvAck(@, r), !.got = TRUE]
  ELSE IF r.k = "timeout" /\ retries < TFTP_RETRY_LIMIT
    THEN IF Head(w1.sends)
           THEN tftp_wait_ack([w1 EXCEPT !.sends = Tail(@), !.log = Append(@, pkt)],
                              pkt, retries + 1)
           ELSE [w1 EXCEPT !.sends = Tail(@), !.got = FALSE]
  ELSE [w1 EXCEPT !.got = FALSE]

\* fault injection: a sender that transmits the packet twice before it waits
tftp_send_and_wait_twice(w, pkt) ==
  IF ~Head(w.sends) THEN [w EXCEPT !.sends = Tail(@), !.got = FALSE]
  ELSE tftp_wait_ack([w EXCEPT !.sends = Tail(@), !.log = Append(Append(@, pkt), pkt)],
                     pkt, 0)

\* the first sendto of a packet, then the retry loop
tftp_send_and_wait(w, pkt) ==
  IF ~Head(w.sends) THEN [w EXCEPT !.sends = Tail(@), !.got = FALSE]
  ELSE tftp_wait_ack([w EXCEPT !.sends = Tail(@), !.log = Append(@, pkt)], pkt, 0)

\* the transfer socket of a call: "none" before socket() or when it failed, then
\* "open", and "closed" after close
\* fault injection: a close that leaves the socket open
close_leak(transfer_sock) == transfer_sock

\* close(transfer_sock)
close(transfer_sock) == IF transfer_sock = "open" THEN "closed" ELSE transfer_sock

\* handle_rrq(sock, client, filename): ok when the check of line 141 passed, log
\* what was sent and received, transfer_sock the transfer socket at the return.
\* bind_ok: bind of the transfer socket; sends, rx: the outcomes of the sendto
\* and recvfrom calls; stack: the uninitialized ack
handle_rrq(fname, bind_ok, sends, rx, stack) ==
  IF ~StrStr(fname, DOT_LUI)
    THEN [ok |-> FALSE, rejected |-> TRUE, log |-> <<>>, transfer_sock |-> "none"]
  ELSE IF ~bind_ok
    THEN [ok |-> FALSE, rejected |-> FALSE, log |-> <<>>, transfer_sock |-> close("open")]
  ELSE
    LET w == tftp_send_and_wait(
               [rx |-> rx, sends |-> sends, buf |-> stack, log |-> <<>>, got |-> FALSE],
               EvTx("DATA", 1))
    IN [ok |-> w.got /\ w.buf.opcode = OP_ACK /\ w.buf.block = 1,
        rejected |-> FALSE, log |-> w.log, transfer_sock |-> close("open")]

\* make_wrq(sock, client_addr, lus_filename, lus_data): ack0 when the check of
\* line 333 passed, ok when the check of line 387 passed as well
make_wrq(sends, rx, stack) ==
  LET a == tftp_send_and_wait(
             [rx |-> rx, sends |-> sends, buf |-> stack, log |-> <<>>, got |-> FALSE],
             EvTx("WRQ", 0))
  IN
  IF ~(a.got /\ a.buf.opcode = OP_ACK /\ a.buf.block = 0)
    THEN [ok |-> FALSE, ack0 |-> FALSE, log |-> a.log]
  ELSE
    LET b == tftp_send_and_wait(a, EvTx("DATA", 1))
    IN [ok |-> b.got /\ b.buf.opcode = OP_ACK /\ b.buf.block = 1,
        ack0 |-> TRUE, log |-> b.log]

\* the inputs of one handle_rrq and of one make_wrq: each wait makes at most
\* TFTP_RETRY_LIMIT + 1 recvfrom and as many sendto
AckRxSeq(k) == [1..k -> AckRx]
MakeWrqResult ==
  { make_wrq(s, rx, b) : s \in SendOutcomes(2 * (TFTP_RETRY_LIMIT + 1)),
                         rx \in AckRxSeq(2 * (TFTP_RETRY_LIMIT + 1)), b \in AckBuf }
HandleRrqResult(fname) ==
  { handle_rrq(fname, o, s, rx, b) : o \in BOOLEAN, s \in SendOutcomes(TFTP_RETRY_LIMIT + 1),
                                     rx \in AckRxSeq(TFTP_RETRY_LIMIT + 1), b \in AckBuf }

\* the outcome of a transfer without its log
\* (of handle_rrq: with the transfer socket it leaves)
LuiOutcome(r) == IF r.ok THEN "ok" ELSE IF r.rejected THEN "rejected" ELSE "failed"
LusOutcome(r) == IF r.ok THEN "ok" ELSE IF r.ack0 THEN "no_ack1" ELSE "no_ack0"
HandleRrqOutcome(fname) ==
  { [lui |-> LuiOutcome(r), eph |-> r.transfer_sock] : r \in HandleRrqResult(fname) }
MakeWrqOutcome == { LusOutcome(r) : r \in MakeWrqResult }

----------------------------------------------------------------------------
(* handle_wrq: reception of the LUR *)

LurRx ==
  { RX_TIMEOUT } \cup
  { [k |-> "pkt", opcode |-> OP_ACK, block |-> 1, pay |-> 5] } \cup
  { [k |-> "pkt", opcode |-> OP_DATA, block |-> b, pay |-> p] :
       b \in 1..(MaxFrames + 1), p \in 1..Len(LurPayload) } \cup
  { [k |-> "runt", n |-> 0, opcode |-> 0], [k |-> "runt", n |-> 2, opcode |-> OP_DATA] }

\* the opcode and block fields of the local `tftp_packet_t pkt` (line 204); it is
\* not initialized, so before the first reception it holds what the stack held
PktBuf == { [opcode |-> 0, block |-> 0], [opcode |-> OP_DATA, block |-> 1] }

\* fault injection: a block of exactly BLOCK_SIZE bytes ends the transfer too
is_last_block_le(data_len) == data_len <= BLOCK_SIZE

\* lines 245 and 616: if (data_len < BLOCK_SIZE) break
is_last_block(data_len) == data_len < BLOCK_SIZE

\* state of the loop of lines 211-246; acks: the blocks acknowledged at line 239;
\* fails: what the call has added to the 8-bit upload_failure_count; faults: how
\* many times line 226 ran
handle_wrq_begin(out, stack) ==
  [st |-> "loop", expected_block |-> 1, lur_buf |-> <<>>, fails |-> 0, out |-> out,
   pkt |-> stack, acks |-> <<>>, transfer_sock |-> "open", faults |-> 0]

\* lines 221-245 for a datagram of n >= 0 bytes received into pkt; data_len is
\* an int (n - 4), total_received + data_len is computed in size_t
handle_wrq_frame(s, r) ==
  LET pkt == RecvAck(s.pkt, r) IN
  IF pkt.opcode # OP_DATA \/ pkt.block # s.expected_block
    THEN [s EXCEPT !.pkt = pkt, !.fails = (@ + 1) % UINT8_MOD, !.faults = @ + 1]
  ELSE
    LET data == IF r.k = "pkt" THEN LurPayload[r.pay] ELSE <<>>
        data_len == IF r.k = "pkt" THEN Len(data) ELSE r.n - 4
        \* a sum below 0 is, as a size_t, at least SIZE_MAX - 3
        sum  == Len(s.lur_buf) + data_len
        fits == sum >= 0 /\ sum <= LUR_BUF_SIZE
    IN [s EXCEPT
          !.pkt = pkt,
          !.lur_buf = IF fits THEN @ \o data ELSE @,
          !.acks = Append(@, s.expected_block),
          !.expected_block = (@ + 1) % 65536,
          \* a memcpy of (size_t)data_len bytes for a negative data_len overruns
          !.st = IF fits /\ data_len < 0 THEN "overrun"
                 ELSE IF is_last_block(data_len) THEN "out" ELSE "loop"]

\* fault injection: a loop that counts a failed receive as an upload failure
handle_wrq_step_timeout(s, r) ==
  IF r.k \notin {"pkt", "runt"} THEN [s EXCEPT !.st = "out", !.fails = (@ + 1) % UINT8_MOD]
  ELSE handle_wrq_frame(s, r)

\* one iteration of the loop
handle_wrq_step(s, r) ==
  IF r.k \notin {"pkt", "runt"} THEN [s EXCEPT !.st = "out"]
  ELSE handle_wrq_frame(s, r)

\* lines 248-275: nothing received, or parse_lur into *lur_file
handle_wrq_end(s) ==
  IF Len(s.lur_buf) = 0
    THEN [rc |-> -1, out |-> s.out, fails |-> s.fails,
          transfer_sock |-> close(s.transfer_sock)]
  ELSE LET r == parse_lur(s.lur_buf, s.out)
       IN [rc |-> r.rc, out |-> r.out, fails |-> s.fails,
           transfer_sock |-> close(s.transfer_sock)]

RECURSIVE handle_wrq_run(_, _)
handle_wrq_run(S, k) ==
  IF k = 0 THEN S
  ELSE handle_wrq_run(
         S \cup { handle_wrq_step(s, r) : s \in {x \in S : x.st = "loop"}, r \in LurRx },
         k - 1)

\* handle_wrq(sock, client, filename, lur_file): *lur_file afterwards and the
\* increments of upload_failure_count, for every behaviour of the loader that
\* sends at most MaxFrames frames and then lets the receive time out
handle_wrq(fname, out, sock_ok) ==
  IF ~StrStr(fname, DOT_LUR)
    THEN { [rc |-> -1, out |-> out, fails |-> 0, transfer_sock |-> "none"] }
  \* socket() failed (line 169), or bind failed (lines 183-184)
  ELSE IF ~sock_ok
    THEN { [rc |-> -1, out |-> out, fails |-> 0, transfer_sock |-> t] :
             t \in {"none", close("open")} }
  ELSE
    LET R == handle_wrq_run({ handle_wrq_begin(out, b) : b \in PktBuf }, MaxFrames)
    IN { handle_wrq_end(IF s.st = "loop" THEN handle_wrq_step(s, RX_TIMEOUT) ELSE s) :
           s \in R }

----------------------------------------------------------------------------
(* make_rrq: reception of the firmware into the staging file *)

\* a file: absent, or present with its content (payload symbols in order)
Absent == [exists |-> FALSE, data |-> <<>>]
File(data) == [exists |-> TRUE, data |-> data]

\* what the platform answers while one DATA block is handled: esp_spiffs_info,
\* total - used, fwrite writing the whole payload, sendto of the ACK
FwEnvOk == [info_ok |-> TRUE, available |-> MIN_AVAILABLE_SPACE, write_ok |-> TRUE, ack_ok |-> TRUE]
FwEnv ==
  { FwEnvOk,
    [FwEnvOk EXCEPT !.info_ok = FALSE],
    [FwEnvOk EXCEPT !.available = MIN_AVAILABLE_SPACE - 1],
    [FwEnvOk EXCEPT !.write_ok = FALSE],
    [FwEnvOk EXCEPT !.ack_ok = FALSE] }

FwRx ==
  { RX_TIMEOUT, RX_ERROR } \cup
  { [k |-> "pkt", opcode |-> OP_ACK, block |-> 1, pay |-> 5, from |-> a, env |-> FwEnvOk] :
       a \in {GSE_MAIN, GSE_TID} } \cup
  { [k |-> "pkt", opcode |-> OP_DATA, block |-> b, pay |-> p, from |-> GSE_TID, env |-> e] :
       b \in {1, 2}, p \in 1..Len(FwPayload), e \in FwEnv }

\* fault injection: a part-number check that accepts every payload
hw_pn_memcmp_any(pay) == TRUE

\* line 512: memcmp(pn_ptr, HW_PN, PN_SIZE) == 0 on payload pay
hw_pn_memcmp(pay) == FwPayload[pay].pn = HW_PN

\* lines 404-448.  st: "loop" in the receive loop, "break" after the terminal
\* block, "return" after an early return (the hash buffer is not written).
\* blocks: the block numbers of the payloads handed to fwrite and hashed; acks: the
\* block numbers of the ACKs sent; low_space: the return of line 566 was taken
make_rrq_begin(old_temp, open_ok, send_ok) ==
  [ st |-> IF open_ok /\ send_ok THEN "loop" ELSE "return",
    temp_file |-> IF open_ok THEN File(<<>>) ELSE old_temp,
    sha_ctx |-> mbedtls_sha256_starts,
    total_bytes |-> 0,
    first_packet |-> TRUE,
    pn_checked |-> FALSE,
    server_tid_addr |-> ADDR_ZERO,
    blocks |-> <<>>,
    acks |-> <<>>,
    low_space |-> FALSE,
    fails |-> 0 ]

\* one iteration of the loop of lines 450-618
make_rrq_step(s, r) ==
  IF r.k # "pkt" THEN [s EXCEPT !.st = "return"]
  ELSE
    LET s1 == IF s.first_packet
                THEN [s EXCEPT !.server_tid_addr = r.from, !.first_packet = FALSE]
                ELSE s
        data_len == FwPayload[r.pay].len
        check_pn == ~s1.pn_checked /\ s1.total_bytes = 0 /\ data_len >= PN_OFFSET + PN_SIZE
    IN
    IF r.opcode # OP_DATA THEN s1
    ELSE IF check_pn /\ ~hw_pn_memcmp(r.pay)
      THEN [s1 EXCEPT !.st = "return", !.fails = (@ + 1) % UINT8_MOD]
    ELSE
      LET s2 == IF check_pn THEN [s1 EXCEPT !.pn_checked = TRUE] ELSE s1 IN
      IF ~r.env.info_ok THEN [s2 EXCEPT !.st = "return"]
      ELSE IF r.env.available < MIN_AVAILABLE_SPACE
        THEN [s2 EXCEPT !.st = "return", !.low_space = TRUE]
      ELSE IF ~r.env.write_ok /\ data_len > 0 THEN [s2 EXCEPT !.st = "return"]
      ELSE
        LET s3 == [s2 EXCEPT
                     !.temp_file = IF data_len = 0 THEN @ ELSE File(@.data \o <<r.pay>>),
                     !.sha_ctx = mbedtls_sha256_update(@, r.pay, data_len),
                     !.total_bytes = @ + data_len,
                     !.blocks = Append(@, r.block)]
            s4 == [s3 EXCEPT !.acks = Append(@, r.block)]
        IN
        IF ~r.env.ack_ok THEN [s3 EXCEPT !.st = "return"]
        ELSE IF is_last_block(data_len) THEN [s4 EXCEPT !.st = "break"]
        ELSE s4

\* lines 620-643: the result of the call.  done: the SHA-256 was finalized into
\* the hash buffer; otherwise the buffer keeps old_hash
make_rrq_end(s, old_hash) ==
  LET done == s.st = "break" /\ s.total_bytes # 0 IN
  [ done |-> done,
    temp |-> s.temp_file,
    hash |-> IF done THEN mbedtls_sha256_finish(s.sha_ctx) ELSE old_hash,
    fails |-> s.fails,
    low_space |-> s.low_space,
    pn_checked |-> s.pn_checked ]

RECURSIVE make_rrq_run(_, _)
make_rrq_run(S, k) ==
  IF k = 0 THEN S
  ELSE make_rrq_run(
         S \cup { make_rrq_step(s, r) : s \in {x \in S : x.st = "loop"}, r \in FwRx },
         k - 1)

\* make_rrq(sock, client_addr, filename, hash), for every behaviour of the loader
\* that sends at most MaxFrames frames and then lets the receive time out
make_rrq(old_temp, old_hash) ==
  LET B == { make_rrq_begin(old_temp, o, t) : o \in BOOLEAN, t \in BOOLEAN }
      R == make_rrq_run(B, MaxFrames)
  IN { make_rrq_end(IF s.st = "loop" THEN make_rrq_step(s, RX_TIMEOUT) ELSE s, old_hash) :
         s \in R }

----------------------------------------------------------------------------
(* components/storage *)

\* fault injection: a commit that copies the staging file and leaves it in place
finalize_firmware_file_copy(t, f, rename_ok) ==
  IF t.exists /\ rename_ok
    THEN [rc |-> ESP_OK,   temp |-> t, final |-> t]
    ELSE [rc |-> ESP_FAIL, temp |-> t, final |-> Absent]

\* finalize_firmware_file: unlink(final) removes an existing final file; rename
\* fails when there is no staging file or the file system refuses it
finalize_firmware_file(t, f, rename_ok) ==
  LET f1 == Absent
  IN IF t.exists /\ rename_ok
       THEN [rc |-> ESP_OK,   temp |-> Absent, final |-> t]
       ELSE [rc |-> ESP_FAIL, temp |-> t,      final |-> f1]

----------------------------------------------------------------------------
(* components/auth *)

ZeroKeys == [bc_auth_key |-> ZeroKey, gse_verify_key |-> ZeroKey]

\* auth_load_keys: how far the two fopen/fread pairs get
LoadOutcome == {"ok", "bc_open", "bc_read", "gse_open", "gse_read"}
auth_load_keys(keys, how) ==
  CASE how = "bc_open"  -> [rc |-> ESP_FAIL, keys |-> keys]
    [] how = "bc_read"  -> [rc |-> ESP_FAIL, keys |-> [keys EXCEPT !.bc_auth_key = PartialKey]]
    [] how = "gse_open" -> [rc |-> ESP_FAIL, keys |-> [keys EXCEPT !.bc_auth_key = BC_STATIC_KEY]]
    [] how = "gse_read" -> [rc |-> ESP_FAIL,
                            keys |-> [bc_auth_key |-> BC_STATIC_KEY, gse_verify_key |-> PartialKey]]
    [] OTHER            -> [rc |-> ESP_OK,
                            keys |-> [bc_auth_key |-> BC_STATIC_KEY, gse_verify_key |-> GSE_EXPECTED_KEY]]

auth_clear_keys(keys) == ZeroKeys

\* the frame that ends the first loop of auth_perform_handshake (non-DATA frames
\* before it are ignored): its payload starts with `key`, has `len` bytes, and the
\* bytes of the local packet buffer after a short payload compare equal or not
HsFirst ==
  { RX_TIMEOUT, RX_ERROR } \cup
  { [k |-> "pkt", key |-> key, len |-> l, block |-> 1, stale_eq |-> q] :
       key \in {GSE_EXPECTED_KEY, WrongKey}, l \in {16, 32, 40}, q \in BOOLEAN }

HsInput == [first : HsFirst, ack_ok : BOOLEAN, key_ok : BOOLEAN, last : AckRx]

\* auth_perform_handshake: return code, authenticated afterwards, and whether
\* the key of the first DATA frame was refused
auth_perform_handshake(keys, was_auth, i) ==
  LET res(rc, a, bad) == [rc |-> rc, authenticated |-> a, key_refused |-> bad]
      f == i.first
  IN
  IF f.k = "timeout" THEN res(ESP_ERR_TIMEOUT, was_auth, FALSE)
  ELSE IF f.k = "error" THEN res(ESP_FAIL, was_auth, FALSE)
  ELSE
    LET memcmp_eq == f.key = keys.gse_verify_key /\ (f.len >= GSE_KEY_SIZE \/ f.stale_eq) IN
    IF ~memcmp_eq THEN res(ESP_FAIL, was_auth, TRUE)
    ELSE IF ~i.ack_ok \/ ~i.key_ok THEN res(ESP_FAIL, was_auth, FALSE)
    ELSE IF i.last.k = "timeout" THEN res(ESP_ERR_TIMEOUT, was_auth, FALSE)
    ELSE IF i.last.k = "error" THEN res(ESP_FAIL, was_auth, FALSE)
    ELSE
      \* the second recvfrom writes into the buffer that holds the DATA frame
      LET packet == RecvAck([opcode |-> OP_DATA, block |-> f.block], i.last) IN
      IF packet.opcode # OP_ACK \/ packet.block # 1 THEN res(ESP_FAIL, was_auth, FALSE)
      ELSE res(ESP_OK, TRUE, FALSE)

----------------------------------------------------------------------------
(* components/state_machine: the globals of fsm.c and the task bc_task *)

VARIABLES
  cur,                    \* bc_task: the current state
  pc,                     \* bc_task: "enter", "handshake", "run" or "halted"
  ret,                    \* bc_task: what the last run handler returned
  sock,                   \* "none" (-1), "bound", or "closed" (closed descriptor)
  maint_wait_initialized,
  maint_button,           \* "NULL" or "handle"
  authenticated,
  auth_keys,
  upload_failure_count,
  req, n, opcode,
  filename,               \* "NULL", or "req.request": it points into req
  lur_file,
  hash,
  client_addr,
  original_client_addr,   \* static of state_uploading.c
  temp, final,            \* /firmware/temp.bin and /firmware/final.bin
  io,                     \* what the transfers called by the last step achieved
  call,                   \* a call of a transfer function on its own (SpecTftp)
  hist                    \* history of the session, read by the properties only

vars == << cur, pc, ret, sock, maint_wait_initialized, maint_button, authenticated,
           auth_keys, upload_failure_count, req, n, opcode, filename, lur_file, hash,
           client_addr, original_client_addr, temp, final, io, call, hist >>

\* tftp_packet_t after memset(0): request is the request string, block the block
\* field, data the first 32 bytes of data.data
ZeroReq == [opcode |-> 0, request |-> <<>>, block |-> 0, data |-> Zero32]

OCTET == <<111, 99, 116, 101, 116>>
\* "a.LUI", "a.LUR", "a.bin"
NAME_LUI == <<97>> \o DOT_LUI
NAME_LUR == <<97>> \o DOT_LUR
NAME_BIN == <<97, 46, 98, 105, 110>>

\* the outcomes of handle_rrq for the file names a loader asks for
HandleRrqOutcomeOf == [f \in {NAME_LUI, NAME_LUR, NAME_BIN} |-> HandleRrqOutcome(f)]

ReqPkt(op, name) ==
  [k |-> "pkt", opcode |-> op, request |-> name \o <<0>> \o OCTET \o <<0>>,
   n |-> Len(name) + 9, from |-> GSE_MAIN]
AckPkt(b) == [k |-> "pkt", opcode |-> OP_ACK, block |-> b, n |-> 4, from |-> GSE_TID]
\* a packet of 2 bytes: only an opcode
ShortPkt == [k |-> "pkt", opcode |-> OP_RRQ, n |-> 2, from |-> GSE_MAIN]
DataPkt(b, len, v) ==
  [k |-> "pkt", opcode |-> OP_DATA, block |-> b, len |-> len, data |-> v,
   n |-> 4 + len, from |-> GSE_TID]

\* recvfrom(sock, &req, ...): the bytes received overwrite the start of req
RecvInto(rq, p) ==
  IF p.n < 4 THEN [rq EXCEPT !.opcode = p.opcode]
  ELSE IF p.opcode \in {OP_RRQ, OP_WRQ}
    THEN [opcode |-> p.opcode, request |-> p.request,
          block |-> Ntohs(SubSeq(p.request, 1, 2)), data |-> Junk32]
  ELSE IF p.opcode = OP_DATA
    THEN [opcode |-> p.opcode, request |-> <<>>, block |-> p.block,
          data |-> IF p.len >= 32 THEN p.data ELSE Junk32]
  ELSE [rq EXCEPT !.opcode = p.opcode, !.block = p.block]

NewHist(f, bad) ==
  [ rrq_completed |-> FALSE,  \* make_rrq of this session finalized the SHA-256
    committed     |-> FALSE,  \* SAVE of this session renamed staging to final
    mismatch      |-> FALSE,  \* VERIFY of this session found the hashes to differ
    temp_created  |-> FALSE,  \* make_rrq of this session created the staging file
    low_space     |-> FALSE,  \* make_rrq of this session stopped for lack of space
    lus_counter   |-> -1,     \* counter of the last LUS of this session, -1: none yet
    final_before  |-> f,      \* the final file when the session began
    bad_key_seen  |-> bad ]   \* some handshake refused the loader's key

\* outcome of handle_rrq (lui), make_wrq (lus) and handle_wrq (lur) in a step
\* lus_to, lus_data: the address make_wrq was given and the LUS record it was given
\* eph: the transfer socket of handle_rrq or handle_wrq after its return
IoNone == [lui |-> "none", lus |-> "none", lur |-> "none", lus_to |-> "none",
           lus_data |-> <<>>, eph |-> "none"]

\* no call in progress
NoCall == [fn |-> "none"]

Init ==
  /\ cur = ST_INIT
  /\ pc = "enter"
  /\ ret = ST_INIT
  /\ sock = "none"
  /\ maint_wait_initialized = FALSE
  /\ maint_button = "NULL"
  /\ authenticated = FALSE
  /\ auth_keys = ZeroKeys
  /\ upload_failure_count = 0
  /\ req = ZeroReq
  /\ n = 0
  /\ opcode = 0
  /\ filename = "NULL"
  /\ lur_file = ZeroLur
  /\ hash = Zero32
  /\ client_addr = ADDR_ZERO
  /\ original_client_addr = ADDR_ZERO
  /\ temp \in {Absent, File(<<LEFTOVER>>)}
  /\ final \in {Absent, File(<<OLD_IMAGE>>)}
  /\ hist = NewHist(final, FALSE)
  /\ io = IoNone
  /\ call = NoCall

\* fault injection: a policy that already fires at MAX_UPLOAD_FAILURES
bc_task_policy_ge(next, count) ==
  IF count >= MAX_UPLOAD_FAILURES THEN ST_ERROR ELSE next

\* fsm.c 86-90: the failure-count policy
bc_task_policy(next, count) ==
  IF count > MAX_UPLOAD_FAILURES THEN ST_ERROR ELSE next

\* fsm.c 79-115 after ops->run() returned `next`: policy, exit, cur = next.
\* The entry action of the new state is the next step of the task.
bc_task_next(next) ==
  /\ ret' = next
  /\ cur' = bc_task_policy(next, upload_failure_count')
  /\ pc' = IF cur' # cur THEN "enter" ELSE "run"

\* entry actions that only log
state_log_enter ==
  /\ pc = "enter"
  /\ UNCHANGED call
  /\ io' = IoNone
  /\ cur \in {ST_INIT, ST_UPLOAD_PREP, ST_VERIFY, ST_SAVE, ST_TEARDOWN, ST_ERROR}
  /\ pc' = "run"
  /\ UNCHANGED << cur, ret, sock, maint_wait_initialized, maint_button, authenticated,
                  auth_keys, upload_failure_count, req, n, opcode, filename, lur_file,
                  hash, client_addr, original_client_addr, temp, final, hist >>

state_init_run ==
  /\ pc = "run" /\ cur = ST_INIT
  /\ UNCHANGED call
  /\ io' = IoNone
  /\ UNCHANGED << sock, maint_wait_initialized, maint_button, authenticated,
                  auth_keys, upload_failure_count, req, n, opcode, filename, lur_file,
                  hash, client_addr, original_client_addr, temp, final, hist >>
  /\ \E nvs_ok, mount_firmware_ok, mount_keys_ok, write_keys_ok \in BOOLEAN :
       bc_task_next(IF nvs_ok /\ mount_firmware_ok /\ mount_keys_ok /\ write_keys_ok
                      THEN ST_OPERATIONAL ELSE ST_ERROR)

state_operational_enter ==
  /\ pc = "enter" /\ cur = ST_OPERATIONAL
  /\ UNCHANGED call
  /\ io' = IoNone
  /\ \E button_init_ok \in BOOLEAN :
       maint_button' = IF button_init_ok THEN "handle" ELSE "NULL"
  /\ pc' = "run"
  /\ UNCHANGED << cur, ret, sock, maint_wait_initialized, authenticated,
                  auth_keys, upload_failure_count, req, n, opcode, filename, lur_file,
                  hash, client_addr, original_client_addr, temp, final, hist >>

\* state_operational_run, and state_operational_exit when the state is left
state_operational_run ==
  /\ pc = "run" /\ cur = ST_OPERATIONAL
  /\ UNCHANGED call
  /\ io' = IoNone
  /\ UNCHANGED << sock, maint_wait_initialized, authenticated,
                  auth_keys, upload_failure_count, req, n, opcode, filename, lur_file,
                  hash, client_addr, original_client_addr, temp, final, hist >>
  /\ \E button_is_pressed \in BOOLEAN :
       bc_task_next(IF maint_button # "NULL" /\ button_is_pressed
                      THEN ST_MAINT_WAIT ELSE ST_OPERATIONAL)
  /\ maint_button' = IF cur' # cur THEN "NULL" ELSE maint_button

\* state_maint_wait_enter up to the handshake loop (lines 14-92)
state_maint_wait_enter ==
  /\ pc = "enter" /\ cur = ST_MAINT_WAIT
  /\ UNCHANGED call
  /\ io' = IoNone
  /\ \E socket_ok, bind_ok \in BOOLEAN, how \in LoadOutcome :
       LET up == maint_wait_initialized \/ (socket_ok /\ bind_ok)
           ld == auth_load_keys(auth_keys, how)
       IN
       /\ sock' = IF maint_wait_initialized THEN sock
                  ELSE IF ~socket_ok THEN "none"
                  ELSE IF ~bind_ok THEN "closed" ELSE "bound"
       /\ maint_wait_initialized' = up
       /\ auth_keys' = IF up THEN ld.keys ELSE auth_keys
       /\ pc' = IF up /\ ld.rc = ESP_OK THEN "handshake" ELSE "run"
  /\ UNCHANGED << cur, ret, maint_button, authenticated, upload_failure_count, req, n,
                  opcode, filename, lur_file, hash, client_addr, original_client_addr,
                  temp, final, hist >>

\* one pass of the loop of state_maint_wait_enter (lines 95-120): a call of
\* auth_perform_handshake, and on ESP_OK the break and auth_clear_keys
state_maint_wait_handshake ==
  /\ pc = "handshake"
  /\ UNCHANGED call
  /\ io' = IoNone
  /\ \E i \in HsInput :
       LET r == auth_perform_handshake(auth_keys, authenticated, i) IN
       /\ authenticated' = r.authenticated
       /\ client_addr' = IF i.first.k = "pkt" THEN GSE_MAIN ELSE client_addr
       /\ auth_keys' = IF r.rc = ESP_OK THEN auth_clear_keys(auth_keys) ELSE auth_keys
       /\ pc' = IF r.rc = ESP_OK THEN "run" ELSE "handshake"
       /\ hist' = [hist EXCEPT !.bad_key_seen = @ \/ r.key_refused]
  /\ UNCHANGED << cur, ret, sock, maint_wait_initialized, maint_button,
                  upload_failure_count, req, n, opcode, filename, lur_file, hash,
                  original_client_addr, temp, final >>

\* filename[n - 2] = '\0' with filename = req.request
Terminate(rq, len) == [rq EXCEPT !.request = SubSeq(@, 1, Min(Len(@), len - 2))]

\* what recvfrom returns in state_maint_wait_run
MaintRx ==
  { RX_TIMEOUT, RX_ERROR, ShortPkt, AckPkt(0),
    ReqPkt(OP_RRQ, NAME_LUI), ReqPkt(OP_RRQ, NAME_BIN), ReqPkt(OP_WRQ, NAME_LUR) }

state_maint_wait_run ==
  /\ pc = "run" /\ cur = ST_MAINT_WAIT
  /\ UNCHANGED call
  /\ UNCHANGED << sock, maint_wait_initialized, maint_button, authenticated, auth_keys,
                  lur_file, hash, original_client_addr, temp, final >>
  /\ IF sock = "none"
       THEN /\ UNCHANGED << upload_failure_count, req, n, opcode, filename, client_addr, hist >>
            /\ io' = IoNone
            /\ bc_task_next(ST_ERROR)
       ELSE \E p \in (IF sock = "bound" THEN MaintRx ELSE { RX_ERROR }) :
         IF p.k # "pkt"
           THEN /\ n' = -1
                /\ UNCHANGED << upload_failure_count, req, opcode, filename, client_addr, hist >>
                /\ io' = IoNone
                /\ bc_task_next(ST_MAINT_WAIT)
         ELSE IF p.n < 4
           THEN /\ n' = p.n
                /\ req' = RecvInto(req, p)
                /\ client_addr' = p.from
                /\ upload_failure_count' = (upload_failure_count + 1) % UINT8_MOD
                /\ UNCHANGED << opcode, filename, hist >>
                /\ io' = IoNone
                /\ bc_task_next(ST_MAINT_WAIT)
         ELSE IF p.opcode = OP_RRQ
           THEN /\ n' = p.n
                /\ opcode' = p.opcode
                /\ filename' = "req.request"
                /\ req' = Terminate(RecvInto(req, p), p.n)
                /\ client_addr' = p.from
                \* handle_rrq(sock, &client_addr, filename) returns void and writes no
                \* global; client_addr is restored from its copy afterwards
                /\ \E o \in HandleRrqOutcomeOf[CStr(req'.request)] :
                     io' = [IoNone EXCEPT !.lui = o.lui, !.eph = o.eph]
                /\ UNCHANGED << upload_failure_count, hist >>
                /\ bc_task_next(ST_UPLOAD_PREP)
         ELSE   /\ n' = p.n
                /\ opcode' = p.opcode
                /\ req' = RecvInto(req, p)
                /\ client_addr' = p.from
                /\ upload_failure_count' = (upload_failure_count + 1) % UINT8_MOD
                /\ UNCHANGED << filename, hist >>
                /\ io' = IoNone
                /\ bc_task_next(ST_MAINT_WAIT)

\* what recvfrom returns in state_upload_prep_run
UploadPrepRx ==
  { RX_TIMEOUT, RX_ERROR, AckPkt(0), ReqPkt(OP_WRQ, NAME_LUR), ReqPkt(OP_WRQ, NAME_BIN) }

state_upload_prep_run ==
  /\ pc = "run" /\ cur = ST_UPLOAD_PREP
  /\ UNCHANGED call
  /\ UNCHANGED << sock, maint_wait_initialized, maint_button, authenticated, auth_keys,
                  hash, original_client_addr, temp, final >>
  /\ LET lus_data == init_lus(ARINC_STATUS_OP_ACCEPTED_NOT_STARTED, "Operation Accepted",
                              0, RATIO_000)
     IN
     IF lus_data.rc # 0
       THEN /\ UNCHANGED << upload_failure_count, req, n, opcode, filename, client_addr,
                            lur_file, hist >>
            /\ io' = IoNone
            /\ bc_task_next(ST_ERROR)
       \* make_wrq(sock, &client_addr, "INIT_LOAD.LUS", &lus_data) returns void and
       \* writes no global
       ELSE \E w \in MakeWrqOutcome, p \in UploadPrepRx :
         IF p.k # "pkt"
           THEN /\ n' = -1
                /\ io' = [IoNone EXCEPT !.lus = w, !.lus_to = client_addr,
                                        !.lus_data = lus_data.lus]
                /\ hist' = [hist EXCEPT !.lus_counter = Ntohs(lus_data.lus.counter)]
                /\ UNCHANGED << upload_failure_count, req, opcode, filename, client_addr,
                                lur_file >>
                /\ bc_task_next(ST_ERROR)
         ELSE IF p.opcode = OP_WRQ
           THEN /\ n' = p.n
                /\ opcode' = p.opcode
                /\ filename' = "req.request"
                /\ req' = Terminate(RecvInto(req, p), p.n)
                /\ client_addr' = p.from
                /\ hist' = [hist EXCEPT !.lus_counter = Ntohs(lus_data.lus.counter)]
                /\ \E sock_ok \in BOOLEAN :
                   \E r \in handle_wrq(CStr(req'.request), lur_file, sock_ok) :
                     /\ io' = [IoNone EXCEPT !.lus = w, !.lus_to = client_addr,
                                             !.lus_data = lus_data.lus,
                                             !.lur = IF r.rc = 0 THEN "ok" ELSE "failed",
                                             !.eph = r.transfer_sock]
                     /\ lur_file' = r.out
                     /\ upload_failure_count' = (upload_failure_count + r.fails) % UINT8_MOD
                     /\ bc_task_next(IF ~is_pn_supported(r.out.load_part_number)
                                       THEN ST_ERROR ELSE ST_UPLOADING)
         ELSE   /\ n' = p.n
                /\ opcode' = p.opcode
                /\ req' = RecvInto(req, p)
                /\ client_addr' = p.from
                /\ io' = [IoNone EXCEPT !.lus = w, !.lus_to = client_addr,
                                        !.lus_data = lus_data.lus]
                /\ hist' = [hist EXCEPT !.lus_counter = Ntohs(lus_data.lus.counter)]
                /\ UNCHANGED << upload_failure_count, filename, lur_file >>
                /\ bc_task_next(ST_ERROR)

state_uploading_enter ==
  /\ pc = "enter" /\ cur = ST_UPLOADING
  /\ UNCHANGED call
  /\ io' = IoNone
  /\ original_client_addr' = client_addr
  /\ \E r \in make_rrq(temp, hash) :
       /\ temp' = r.temp
       /\ hash' = r.hash
       /\ upload_failure_count' = (upload_failure_count + r.fails) % UINT8_MOD
       /\ hist' = [hist EXCEPT !.rrq_completed = r.done,
                               !.low_space = r.low_space,
                               !.temp_created = r.temp.exists /\ r.temp # temp]
  /\ pc' = "run"
  /\ UNCHANGED << cur, ret, sock, maint_wait_initialized, maint_button, authenticated,
                  auth_keys, req, n, opcode, filename, lur_file, client_addr, final >>

\* what recvfrom returns in state_uploading_run: a DATA frame whose 32 bytes are
\* zero, arbitrary, the hash buffer or the digest of the staging file; a DATA
\* frame without payload; an ACK
HashRx(h, t) ==
  { RX_TIMEOUT, RX_ERROR, AckPkt(1), DataPkt(1, 0, Junk32) } \cup
  { DataPkt(1, 32, v) : v \in {Zero32, Junk32, h, Sha256(t.data)} }

\* fault injection: an UPLOADING that keeps the address the hash came from
state_uploading_restore_keep(original, tid) == tid

\* line 100: client_addr = original_client_addr
state_uploading_restore(original, tid) == original

state_uploading_run ==
  /\ pc = "run" /\ cur = ST_UPLOADING
  /\ UNCHANGED call
  /\ io' = IoNone
  /\ UNCHANGED << sock, maint_wait_initialized, maint_button, authenticated, auth_keys,
                  upload_failure_count, n, opcode, filename, lur_file, hash,
                  original_client_addr, temp, final, hist >>
  /\ \E p \in HashRx(hash, temp), sendto_ok \in BOOLEAN :
       IF p.k # "pkt"
         THEN /\ UNCHANGED << req, client_addr >>
              /\ bc_task_next(ST_ERROR)
         ELSE /\ req' = RecvInto(req, p)
              /\ client_addr' = IF sendto_ok
                                  THEN state_uploading_restore(original_client_addr, p.from)
                                  ELSE p.from
              /\ bc_task_next(IF sendto_ok THEN ST_VERIFY ELSE ST_ERROR)

\* fault injection: a VERIFY that refuses every payload
state_verify_next_reject(rq, h) == ST_ERROR

\* fault injection: a VERIFY that accepts every payload
state_verify_next_accept(rq, h) == ST_SAVE

\* state_verify_run: memcmp(req.data.data, hash, 32)
state_verify_next(rq, h) == IF rq.data # h THEN ST_ERROR ELSE ST_SAVE

state_verify_run ==
  /\ pc = "run" /\ cur = ST_VERIFY
  /\ UNCHANGED call
  /\ io' = IoNone
  /\ hist' = [hist EXCEPT !.mismatch = req.data # hash]
  /\ UNCHANGED << sock, maint_wait_initialized, maint_button, authenticated, auth_keys,
                  upload_failure_count, req, n, opcode, filename, lur_file, hash,
                  client_addr, original_client_addr, temp, final >>
  /\ bc_task_next(state_verify_next(req, hash))

\* fault injection: a SAVE that goes back to MAINT_WAIT without TEARDOWN
state_save_next_skip(rc) == IF rc # ESP_OK THEN ST_ERROR ELSE ST_MAINT_WAIT

\* state_save_run: the verdict on the result of finalize_firmware_file
state_save_next(rc) == IF rc # ESP_OK THEN ST_ERROR ELSE ST_TEARDOWN

state_save_run ==
  /\ pc = "run" /\ cur = ST_SAVE
  /\ UNCHANGED call
  /\ io' = IoNone
  /\ UNCHANGED << sock, maint_wait_initialized, maint_button, authenticated, auth_keys,
                  upload_failure_count, req, n, opcode, filename, lur_file, hash,
                  client_addr, original_client_addr >>
  /\ \E rename_ok \in BOOLEAN :
       LET r == finalize_firmware_file(temp, final, rename_ok) IN
       /\ temp' = r.temp
       /\ final' = r.final
       /\ hist' = [hist EXCEPT !.committed = r.rc = ESP_OK]
       /\ bc_task_next(state_save_next(r.rc))

\* fault injection: a reset that forgets the counter and the authentication flag
state_teardown_reset_globals_partial(g) ==
  [ lur_file |-> ZeroLur, hash |-> Zero32, req |-> ZeroReq, filename |-> "NULL",
    opcode |-> 0, n |-> 0, upload_failure_count |-> g.upload_failure_count,
    authenticated |-> g.authenticated ]

\* fault injection: a TEARDOWN that does not clear lur_file
state_teardown_reset_globals_keep_lur(g) ==
  [ lur_file |-> g.lur_file, hash |-> Zero32, req |-> ZeroReq, filename |-> "NULL",
    opcode |-> 0, n |-> 0, upload_failure_count |-> 0, authenticated |-> FALSE ]

\* state_teardown_reset_globals: the globals g afterwards
state_teardown_reset_globals(g) ==
  [ lur_file |-> ZeroLur, hash |-> Zero32, req |-> ZeroReq, filename |-> "NULL",
    opcode |-> 0, n |-> 0, upload_failure_count |-> 0, authenticated |-> FALSE ]

state_teardown_run ==
  /\ pc = "run" /\ cur = ST_TEARDOWN
  /\ UNCHANGED call
  /\ UNCHANGED << sock, maint_wait_initialized, maint_button, auth_keys, client_addr,
                  original_client_addr, temp, final >>
  /\ LET final_lus_data == init_lus(ARINC_STATUS_OP_COMPLETED_OK,
                                    "Load Completed Successfully", 2, RATIO_100)
     IN
     IF final_lus_data.rc # 0
       THEN /\ UNCHANGED << lur_file, hash, req, filename, opcode, n, upload_failure_count,
                            authenticated, hist >>
            /\ io' = IoNone
            /\ bc_task_next(ST_ERROR)
       \* make_wrq(sock, &client_addr, "FINAL_LOAD.LUS", &final_lus_data) returns
       \* void and writes no global
       ELSE \E w \in MakeWrqOutcome :
         LET g == state_teardown_reset_globals(
                    [ lur_file |-> lur_file, hash |-> hash, req |-> req,
                      filename |-> filename, opcode |-> opcode, n |-> n,
                      upload_failure_count |-> upload_failure_count,
                      authenticated |-> authenticated ])
         IN
         /\ lur_file' = g.lur_file
         /\ hash' = g.hash
         /\ req' = g.req
         /\ filename' = g.filename
         /\ opcode' = g.opcode
         /\ n' = g.n
         /\ upload_failure_count' = g.upload_failure_count
         /\ authenticated' = g.authenticated
         /\ hist' = NewHist(final, hist.bad_key_seen)
         /\ io' = [IoNone EXCEPT !.lus = w, !.lus_to = client_addr,
                                 !.lus_data = final_lus_data.lus]
         /\ bc_task_next(ST_MAINT_WAIT)

\* fault injection: an ERROR state that leaves the staging file
state_error_unlink_keep(t) == t

\* unlink(TEMP_FILE_PATH) of state_error_run
state_error_unlink(t) == Absent

\* state_error_run: removes the staging file and aborts; the task never runs again
state_error_run ==
  /\ pc = "run" /\ cur = ST_ERROR
  /\ UNCHANGED call
  /\ io' = IoNone
  /\ UNCHANGED << cur, ret, sock, maint_wait_initialized, maint_button, authenticated,
                  auth_keys, upload_failure_count, req, n, opcode, filename, lur_file,
                  hash, client_addr, original_client_addr, final, hist >>
  /\ temp' = state_error_unlink(temp)
  /\ pc' = "halted"

Next ==
  \/ state_log_enter
  \/ state_init_run
  \/ state_operational_enter
  \/ state_operational_run
  \/ state_maint_wait_enter
  \/ state_maint_wait_handshake
  \/ state_maint_wait_run
  \/ state_upload_prep_run
  \/ state_uploading_enter
  \/ state_uploading_run
  \/ state_verify_run
  \/ state_save_run
  \/ state_teardown_run
  \/ state_error_run

Spec == Init /\ [][Next]_vars

----------------------------------------------------------------------------
(* The transfer functions of components/tftp called on their own *)

fsm_vars == << cur, pc, ret, sock, maint_wait_initialized, maint_button, authenticated,
               auth_keys, upload_failure_count, req, n, opcode, filename, lur_file, hash,
               client_addr, original_client_addr, temp, final, io, hist >>

\* a call of handle_rrq(sock, client, filename)
call_handle_rrq ==
  /\ call = NoCall
  /\ \E f \in {NAME_LUI, NAME_BIN} : \E r \in HandleRrqResult(f) :
       call' = [fn |-> "handle_rrq", filename |-> f, res |-> r]
  /\ UNCHANGED fsm_vars

\* a call of make_wrq(sock, client_addr, lus_filename, lus_data)
call_make_wrq ==
  /\ call = NoCall
  /\ \E r \in MakeWrqResult : call' = [fn |-> "make_wrq", res |-> r]
  /\ UNCHANGED fsm_vars

\* a call of make_rrq(sock, client_addr, filename, hash) up to its receive loop;
\* s holds the locals, rx the last datagram, before the locals before it
call_make_rrq_begin ==
  /\ call = NoCall
  /\ \E old_temp \in {Absent, File(<<LEFTOVER>>)}, old_hash \in {Zero32, Junk32},
        open_ok, send_ok \in BOOLEAN :
       LET s == make_rrq_begin(old_temp, open_ok, send_ok) IN
       call' = [fn |-> "make_rrq", old_hash |-> old_hash, frames |-> 0,
                s |-> s, rx |-> RX_TIMEOUT, before |-> s]
  /\ UNCHANGED fsm_vars

\* one iteration of the receive loop of make_rrq; after MaxFrames datagrams the
\* loader is silent
call_make_rrq_step ==
  /\ call.fn = "make_rrq" /\ call.s.st = "loop"
  /\ \E r \in (IF call.frames < MaxFrames THEN FwRx ELSE { RX_TIMEOUT }) :
       call' = [call EXCEPT !.s = make_rrq_step(@, r), !.rx = r, !.before = call.s,
                            !.frames = @ + 1]
  /\ UNCHANGED fsm_vars

\* lines 620-643 of make_rrq and its return
call_make_rrq_end ==
  /\ call.fn = "make_rrq" /\ call.s.st # "loop"
  /\ call' = [fn |-> "make_rrq_end", old_hash |-> call.old_hash, s |-> call.s,
              rx |-> call.rx, before |-> call.before,
              res |-> make_rrq_end(call.s, call.old_hash)]
  /\ UNCHANGED fsm_vars

\* a call of handle_wrq(sock, client, filename, lur_file) with a name holding
\* ".LUR" and a transfer socket, up to its receive loop
call_handle_wrq_begin ==
  /\ call = NoCall
  /\ \E b \in PktBuf :
       LET s == handle_wrq_begin(ZeroLur, b) IN
       call' = [fn |-> "handle_wrq", frames |-> 0, s |-> s, rx |-> RX_TIMEOUT, before |-> s]
  /\ UNCHANGED fsm_vars

\* one iteration of the receive loop of handle_wrq
call_handle_wrq_step ==
  /\ call.fn = "handle_wrq" /\ call.s.st = "loop"
  /\ \E r \in (IF call.frames < MaxFrames THEN LurRx ELSE { RX_TIMEOUT }) :
       call' = [call EXCEPT !.s = handle_wrq_step(@, r), !.rx = r, !.before = call.s,
                            !.frames = @ + 1]
  /\ UNCHANGED fsm_vars

\* k iterations of the loop that receive the same frame r
RECURSIVE handle_wrq_times(_, _, _)
handle_wrq_times(s, r, k) ==
  IF k = 0 \/ s.st # "loop" THEN s
  ELSE IF k = 1 THEN handle_wrq_step(s, r)
  ELSE LET h == handle_wrq_times(s, r, k \div 2)
       IN handle_wrq_times(h, r, k - (k \div 2))

\* UINT8_MOD iterations of the loop of handle_wrq in which the loader sends the
\* same ACK frame again and again; counted as one of the MaxFrames frames
call_handle_wrq_burst ==
  /\ call.fn = "handle_wrq" /\ call.s.st = "loop" /\ call.frames < MaxFrames
  /\ LET r == [k |-> "pkt", opcode |-> OP_ACK, block |-> 1, pay |-> 5]
         b == handle_wrq_times(call.s, r, UINT8_MOD - 1)
     IN call' = [call EXCEPT !.s = handle_wrq_step(b, r), !.rx = r, !.before = b,
                             !.frames = @ + 1]
  /\ UNCHANGED fsm_vars

\* lines 248-275 of handle_wrq and its return
call_handle_wrq_end ==
  /\ call.fn = "handle_wrq" /\ call.s.st # "loop"
  /\ call' = [fn |-> "handle_wrq_end", s |-> call.s, rx |-> call.rx,
              before |-> call.before, res |-> handle_wrq_end(call.s)]
  /\ UNCHANGED fsm_vars

\* a call of auth_perform_handshake(sock, &client_addr, &auth_keys) with the keys
\* loaded and authenticated still false
call_auth_perform_handshake ==
  /\ call = NoCall
  /\ \E i \in HsInput :
       LET keys == auth_load_keys(ZeroKeys, "ok").keys IN
       call' = [fn |-> "auth_perform_handshake", keys |-> keys, i |-> i,
                res |-> auth_perform_handshake(keys, FALSE, i)]
  /\ UNCHANGED fsm_vars

\* ratios a caller may pass to init_lus: "000", "050", "100", "101", "999",
\* "1a0", "abc", "00", "0000", ""
RatioInput ==
  { <<48, 48, 48>>, <<48, 53, 48>>, <<49, 48, 48>>, <<49, 48, 49>>, <<57, 57, 57>>,
    <<49, 97, 48>>, <<97, 98, 99>>, <<48, 48>>, <<48, 48, 48, 48>>, <<>> }

\* a call of init_lus(&lus, status_code, description, counter, ratio)
call_init_lus ==
  /\ call = NoCall
  /\ \E ratio \in RatioInput, counter \in {0, 1},
        st \in {ARINC_STATUS_OP_ACCEPTED_NOT_STARTED, ARINC_STATUS_OP_COMPLETED_OK} :
       call' = [fn |-> "init_lus", ratio |-> ratio, counter |-> counter,
                res |-> init_lus(st, <<>>, counter, ratio)]
  /\ UNCHANGED fsm_vars

\* buffers a caller may pass to parse_lur: every prefix of a well-formed image, of
\* one with num_header_files 0, of one whose part-number length exceeds what is
\* left, and of one with bytes after the part number
ParseLurInput ==
  LET img == { LurImage(1, FW_NAME, Len(UNKNOWN_PN), UNKNOWN_PN),
               LurImage(0, FW_NAME, Len(UNKNOWN_PN), UNKNOWN_PN),
               LurImage(1, <<102>>, Len(UNKNOWN_PN) + 1, UNKNOWN_PN),
               LurImage(2, <<102>>, 3, UNKNOWN_PN) }
  IN UNION { { SubSeq(i, 1, k) : k \in 0..Len(i) } : i \in img }

\* a call of parse_lur(buf, len, &out) with out zeroed or holding an earlier LUR
call_parse_lur ==
  /\ call = NoCall
  /\ \E buf \in ParseLurInput, out \in {ZeroLur, parse_lur(LurPayload[1], ZeroLur).out} :
       call' = [fn |-> "parse_lur", buf |-> buf, read_end |-> parse_lur_read_end(buf),
                res |-> parse_lur(buf, out)]
  /\ UNCHANGED fsm_vars

\* the bytes of BC_STATIC_KEY and of GSE_EXPECTED_KEY
BC_STATIC_KEY_DATA ==
  << 66, 67, 95, 83, 69, 67, 82, 69, 84, 95, 75, 69, 89, 95, 51, 50,
     95, 66, 89, 84, 69, 83, 95, 69, 88, 65, 67, 84, 76, 89, 33, 33 >>
GSE_EXPECTED_KEY_DATA ==
  << 71, 83, 69, 95, 83, 69, 67, 82, 69, 84, 95, 75, 69, 89, 95, 51,
     50, 95, 66, 89, 84, 69, 83, 95, 69, 88, 65, 67, 84, 76, 89, 33 >>

\* fwrite(key, 1, size, file) that stores k of the bytes; fread(dst, 1, size, file)
\* that overwrites the first bytes of dst with what the file holds, and its count
fwrite_key(key, k) == File(SubSeq(key, 1, k))
fread_count(file, size) == Min(Len(file.data), size)
\* fault injection: an fread that reports the count and stores nothing
fread_key_none(dst, file, size) == dst

fread_key(dst, file, size) ==
  LET k == fread_count(file, size) IN
  SubSeq(file.data, 1, k) \o SubSeq(dst, k + 1, Len(dst))

\* auth_write_static_keys over the two key files; how: which fopen("wb") or
\* fwrite falls short, the fwrite after `part` bytes
WriteOutcome == {"ok", "bc_open", "bc_write", "gse_open", "gse_write"}
auth_write_static_keys(fs, how, part) ==
  CASE how = "bc_open"   -> [rc |-> ESP_FAIL, fs |-> fs]
    [] how = "bc_write"  -> [rc |-> ESP_FAIL,
                             fs |-> [fs EXCEPT !.bc = fwrite_key(BC_STATIC_KEY_DATA, part)]]
    [] how = "gse_open"  -> [rc |-> ESP_FAIL,
                             fs |-> [fs EXCEPT !.bc = fwrite_key(BC_STATIC_KEY_DATA, BC_KEY_SIZE)]]
    [] how = "gse_write" -> [rc |-> ESP_FAIL,
                             fs |-> [bc  |-> fwrite_key(BC_STATIC_KEY_DATA, BC_KEY_SIZE),
                                     gse |-> fwrite_key(GSE_EXPECTED_KEY_DATA, part)]]
    [] OTHER             -> [rc |-> ESP_OK,
                             fs |-> [bc  |-> fwrite_key(BC_STATIC_KEY_DATA, BC_KEY_SIZE),
                                     gse |-> fwrite_key(GSE_EXPECTED_KEY_DATA, GSE_KEY_SIZE)]]

\* auth_load_keys over the two key files, the key buffers as bytes: fopen("rb")
\* fails on a file that is not there, fread stops at the end of the file
auth_load_keys_from(keys, fs) ==
  IF ~fs.bc.exists THEN [rc |-> ESP_FAIL, keys |-> keys]
  ELSE
    LET k1 == [keys EXCEPT !.bc_auth_key = fread_key(@, fs.bc, BC_KEY_SIZE)] IN
    IF fread_count(fs.bc, BC_KEY_SIZE) # BC_KEY_SIZE THEN [rc |-> ESP_FAIL, keys |-> k1]
    ELSE IF ~fs.gse.exists THEN [rc |-> ESP_FAIL, keys |-> k1]
    ELSE
      LET k2 == [k1 EXCEPT !.gse_verify_key = fread_key(@, fs.gse, GSE_KEY_SIZE)] IN
      IF fread_count(fs.gse, GSE_KEY_SIZE) # GSE_KEY_SIZE
      THEN [rc |-> ESP_FAIL, keys |-> k2]
      ELSE [rc |-> ESP_OK, keys |-> k2]

\* the key files before a call: not there, empty, holding other bytes (fewer or
\* more than a key)
KeyFile ==
  { Absent, File(<<>>), File(ZeroBytes(8)), File([i \in 1..40 |-> 255]) }

\* a call of auth_write_static_keys()
call_auth_write_static_keys ==
  /\ call = NoCall
  /\ \E bc, gse \in KeyFile, how \in WriteOutcome, part \in {0, 16} :
       LET w == auth_write_static_keys([bc |-> bc, gse |-> gse], how, part) IN
       call' = [fn |-> "auth_write_static_keys", rc |-> w.rc, fs |-> w.fs]
  /\ UNCHANGED fsm_vars

\* a call of auth_load_keys(&keys), keys zeroed, after auth_write_static_keys
\* has returned
call_auth_load_keys ==
  /\ call.fn = "auth_write_static_keys"
  /\ LET zero == [bc_auth_key |-> ZeroBytes(BC_KEY_SIZE),
                  gse_verify_key |-> ZeroBytes(GSE_KEY_SIZE)]
     IN call' = [fn |-> "auth_load_keys", wrote |-> call.rc, fs |-> call.fs,
                 res |-> auth_load_keys_from(zero, call.fs)]
  /\ UNCHANGED fsm_vars

\* the calls bc_task makes through ops: enter and exit of a state, and run with
\* the state the iteration goes on with
OpEnter(st) == [op |-> "enter", st |-> st, next |-> st]
OpExit(st)  == [op |-> "exit", st |-> st, next |-> st]
OpRun(st, next) == [op |-> "run", st |-> st, next |-> next]

\* fault injection: a transition that enters the new state without leaving the old
bc_task_transition_no_exit(c, next) ==
  IF next # c THEN << OpEnter(next) >> ELSE << >>

\* fsm.c 98-115: the calls of an iteration after run and the policy
bc_task_transition(c, next) ==
  IF next # c THEN << OpExit(c), OpEnter(next) >> ELSE << >>

\* the last MaxCalls calls
LastCalls(log) ==
  IF Len(log) > MaxCalls THEN SubSeq(log, Len(log) - MaxCalls + 1, Len(log)) ELSE log

\* bc_task with handlers that may return any state: lines 61-71
call_bc_task_begin ==
  /\ call = NoCall
  /\ call' = [fn |-> "bc_task", cur |-> ST_INIT, log |-> << OpEnter(ST_INIT) >>]
  /\ UNCHANGED fsm_vars

\* one iteration of its loop (lines 77-122): run returns r and leaves the failure
\* count at count
call_bc_task_step ==
  /\ call.fn = "bc_task"
  /\ \E r \in fsm_state_t, count \in {0, MAX_UPLOAD_FAILURES + 1} :
       LET next == bc_task_policy(r, count) IN
       call' = [call EXCEPT
                  !.cur = next,
                  !.log = LastCalls(@ \o << OpRun(call.cur, next) >>
                                      \o bc_task_transition(call.cur, next))]
  /\ UNCHANGED fsm_vars

NextTftp ==
  \/ call_init_lus
  \/ call_bc_task_begin
  \/ call_bc_task_step
  \/ call_auth_write_static_keys
  \/ call_auth_load_keys
  \/ call_parse_lur
  \/ call_handle_wrq_begin
  \/ call_handle_wrq_step
  \/ call_handle_wrq_burst
  \/ call_handle_wrq_end
  \/ call_auth_perform_handshake
  \/ call_handle_rrq
  \/ call_make_wrq
  \/ call_make_rrq_begin
  \/ call_make_rrq_step
  \/ call_make_rrq_end

SpecTftp == Init /\ [][NextTftp]_vars

\* The task when every platform call succeeds and the loader follows the dialog
\* of a load without a lost packet: the button is pressed, the keys load, the
\* handshake succeeds, the RRQ for the .LUI is served, both LUS are acknowledged,
\* the LUR parses with a part number of the allow-list, the firmware arrives
\* complete without a counted failure, and the hash sent is the digest of the
\* bytes sent.  bc_task runs its loop for ever, hence the weak fairness.
NextHappy ==
  \/ state_log_enter
  \/ state_init_run /\ ret' = ST_OPERATIONAL
  \/ state_operational_enter /\ maint_button' # "NULL"
  \/ state_operational_run /\ ret' = ST_MAINT_WAIT
  \/ state_maint_wait_enter /\ pc' = "handshake"
  \/ state_maint_wait_handshake /\ pc' = "run"
  \/ state_maint_wait_run /\ io'.lui = "ok"
  \/ state_upload_prep_run /\ io'.lus = "ok" /\ io'.lur = "ok" /\ ret' = ST_UPLOADING
       /\ upload_failure_count' = upload_failure_count
  \/ state_uploading_enter /\ hist'.rrq_completed
       /\ upload_failure_count' = upload_failure_count
  \/ state_uploading_run /\ ret' = ST_VERIFY /\ req'.data = Sha256(temp.data)
  \/ state_verify_run
  \/ state_save_run /\ hist'.committed
  \/ state_teardown_run /\ io'.lus = "ok"

SpecHappy == Init /\ [][NextHappy]_vars /\ WF_vars(NextHappy)

\* The task whose loop never stops taking its next iteration (while (1) and
\* vTaskDelay, fsm.c 77-123)
SpecFair == Init /\ [][Next]_vars /\ WF_vars(Next)

\* the task, or instead of it the functions it calls, called on their own
NextAll ==
  \/ call = NoCall /\ Next
  \/ cur = ST_INIT /\ NextTftp

SpecAll == Init /\ [][NextAll]_vars

----------------------------------------------------------------------------
(* Properties *)

LoadStates == {ST_UPLOAD_PREP, ST_UPLOADING, ST_VERIFY, ST_SAVE, ST_TEARDOWN}

\* C1 (integrity of commit): whenever SAVE of the session has renamed the staging
\* file to the final file, make_rrq of the session ran to completion and the 32
\* bytes received in UPLOADING are the SHA-256 of the bytes that were staged,
\* also when make_rrq returned early and left the hash buffer at its old value.
C1_IntegrityOfCommit ==
  hist.committed => (hist.rrq_completed /\ req.data = Sha256(final.data))

\* C2: every session that reaches TEARDOWN got there by SAVE renaming the staging
\* file to the final path, and while the session is in TEARDOWN there is a final
\* file and no file at the staging path.
C2_SuccessfulSessionRenamed ==
  /\ [](cur = ST_TEARDOWN => (hist.committed /\ final.exists /\ ~temp.exists))
  /\ [][(cur # ST_TEARDOWN /\ cur' = ST_TEARDOWN)
          => (cur = ST_SAVE /\ temp.exists /\ final' = temp /\ ~temp'.exists)]_vars

C2_Witness ==
  cur = ST_TEARDOWN /\ pc = "run" /\ hist.rrq_completed /\ Len(final.data) >= 2

C5_AtomicCommit ==
  hist.final_before.exists => final.exists

\* C6 (bad handshake key): once a handshake has refused the key of the loader,
\* the task is on its way to ERROR and no later frame authenticates the loader.
C6_BadKeyIsFatal ==
  hist.bad_key_seen => (~authenticated /\ cur \in {ST_MAINT_WAIT, ST_ERROR})

\* C7 (no unauthenticated load): in UPLOAD_PREP, UPLOADING, VERIFY, SAVE and
\* TEARDOWN the loader is authenticated, also when loading the keys failed in the
\* entry action of MAINT_WAIT.
C7_NoUnauthenticatedLoad ==
  cur \in LoadStates => authenticated

\* C8: the run action of TEARDOWN that returns MAINT_WAIT leaves authenticated
\* false, upload_failure_count 0, the LUR record, the hash buffer and the request
\* buffer all-zero, filename NULL, opcode 0 and n 0.
C8_TeardownResetsGlobals ==
  [][(cur = ST_TEARDOWN /\ pc = "run" /\ ret' = ST_MAINT_WAIT)
       => /\ authenticated' = FALSE
          /\ upload_failure_count' = 0
          /\ lur_file' = ZeroLur
          /\ hash' = Zero32
          /\ req' = ZeroReq
          /\ filename' = "NULL"
          /\ opcode' = 0
          /\ n' = 0]_vars

C8_Witness ==
  /\ cur = ST_MAINT_WAIT /\ pc = "enter" /\ ~authenticated
  /\ final.exists /\ final # File(<<OLD_IMAGE>>) /\ hist.final_before = final

\* C9 (failure-count policy): after an iteration of the run loop that leaves the
\* counter above 2 the next state is ERROR whatever the handler returned; with a
\* counter of 0, 1 or 2 the next state is the one the handler returned.
C9_FailureCountPolicy ==
  [][(pc = "run" /\ pc' # "halted")
       => cur' = IF upload_failure_count' > 2 THEN ST_ERROR ELSE ret']_vars

C9_Witness ==
  cur = ST_ERROR /\ pc = "enter" /\ ret \notin {ST_ERROR} /\ upload_failure_count = 3

StrictTransitions ==
  { <<ST_INIT, ST_OPERATIONAL>>, <<ST_OPERATIONAL, ST_MAINT_WAIT>>,
    <<ST_MAINT_WAIT, ST_UPLOAD_PREP>>, <<ST_UPLOAD_PREP, ST_UPLOADING>>,
    <<ST_UPLOADING, ST_VERIFY>>, <<ST_VERIFY, ST_SAVE>>, <<ST_SAVE, ST_TEARDOWN>>,
    <<ST_TEARDOWN, ST_MAINT_WAIT>> } \cup
  { <<s, ST_ERROR>> : s \in fsm_state_t \ {ST_ERROR} }

\* C10 (strict transitions): the task starts in INIT, every change of state is one
\* of the eight transitions of the load sequence or a transition into ERROR, and
\* nothing changes any more once ERROR has run.
C10_StrictTransitions ==
  /\ cur = ST_INIT
  /\ [][cur' # cur => <<cur, cur'>> \in StrictTransitions]_vars
  /\ [][pc = "halted" => UNCHANGED vars]_vars

C10_Witness ==
  /\ pc = "halted" /\ ret = ST_ERROR
  /\ final.exists /\ final # File(<<OLD_IMAGE>>) /\ hist.final_before = final

----------------------------------------------------------------------------
(* Properties of the transfer functions, under SpecTftp *)

SameTx(a, b) == a.e = "tx" /\ b.e = "tx" /\ a.what = b.what /\ a.block = b.block
IsRxTimeout(ev) == ev.e = "rx" /\ ev.r.k = "timeout"
\* ev is the reception of a whole ACK frame with block number b
IsAckFrame(ev, b) ==
  ev.e = "rx" /\ ev.r.k = "pkt" /\ ev.r.opcode = OP_ACK /\ ev.r.block = b

\* C11: lock-step sending.  make_wrq sends the LUS DATA block 1 only after it
\* has received an ACK frame (opcode ACK, block 0) for its WRQ.
C11_LockStep ==
  call.fn = "make_wrq" =>
    \A i \in 1..Len(call.res.log) :
      (call.res.log[i].e = "tx" /\ call.res.log[i].what = "DATA") =>
        \E j \in 1..(i - 1) : IsAckFrame(call.res.log[j], 0)

\* C12: block ordering on reception.  The blocks make_rrq writes to the staging
\* file, hashes and acknowledges carry the numbers 1, 2, 3, ... in order, with
\* no gap and no repetition.
C12_BlockOrder ==
  call.fn \in {"make_rrq", "make_rrq_end"} =>
    /\ \A i \in 1..Len(call.s.blocks) : call.s.blocks[i] = i
    /\ \A i \in 1..Len(call.s.acks) : call.s.acks[i] = i

\* C13: retransmission limit.  In handle_rrq and make_wrq every packet that
\* waits for an ACK is transmitted at most TFTP_RETRY_LIMIT + 1 = 2 times, the
\* second time only right after a timeout of the first, and a second timeout
\* ends the transfer as failed with nothing sent after it.
RetransmissionLimit(res) ==
  \A i \in 1..Len(res.log) :
    /\ res.log[i].e = "tx" =>
         /\ Cardinality({ j \in 1..Len(res.log) : SameTx(res.log[j], res.log[i]) })
              <= TFTP_RETRY_LIMIT + 1
         /\ (\E j \in 1..(i - 1) : SameTx(res.log[j], res.log[i])) =>
              /\ i >= 3
              /\ IsRxTimeout(res.log[i - 1])
              /\ SameTx(res.log[i - 2], res.log[i])
    /\ (i >= 3 /\ IsRxTimeout(res.log[i]) /\ IsRxTimeout(res.log[i - 2])) =>
         i = Len(res.log) /\ ~res.ok

C13_RetransmissionLimit ==
  call.fn \in {"handle_rrq", "make_wrq"} => RetransmissionLimit(call.res)

\* the LUS DATA block was sent, timed out, was sent again and timed out again
C13_Witness ==
  /\ call.fn = "make_wrq"
  /\ Len(call.res.log) = 6
  /\ SameTx(call.res.log[3], [e |-> "tx", what |-> "DATA", block |-> 1])
  /\ SameTx(call.res.log[5], call.res.log[3])
  /\ IsRxTimeout(call.res.log[4]) /\ IsRxTimeout(call.res.log[6])
  /\ ~call.res.ok

\* the last iteration of make_rrq received the first firmware DATA payload, of
\* at least PN_OFFSET + PN_SIZE bytes, and its part-number field is not HW_PN
HwPnMismatch(c) ==
  /\ c.before.st = "loop"
  /\ c.rx.k = "pkt" /\ c.rx.opcode = OP_DATA
  /\ c.before.blocks = <<>>
  /\ FwPayload[c.rx.pay].len >= PN_OFFSET + PN_SIZE
  /\ FwPayload[c.rx.pay].pn # HW_PN

\* C16: hardware PN mismatch.  When the first firmware DATA payload has at least
\* 40 bytes and its bytes [20..40) differ from HW_PN, make_rrq returns with the
\* failure count raised by exactly 1, nothing written to the staging file, no
\* ACK sent for the block and the hash buffer unchanged.
C16_HwPnMismatch ==
  (call.fn \in {"make_rrq", "make_rrq_end"} /\ HwPnMismatch(call)) =>
    /\ call.s.st = "return"
    /\ call.s.fails = call.before.fails + 1
    /\ call.s.temp_file = File(<<>>)
    /\ call.s.blocks = <<>> /\ call.s.acks = <<>>
    /\ call.fn = "make_rrq_end" =>
         /\ ~call.res.done
         /\ call.res.hash = call.old_hash
         /\ call.res.fails = 1
         /\ call.res.temp = File(<<>>)

\* make_rrq has returned after a mismatching first payload; the hash buffer held
\* a value before the call
C16_Witness ==
  /\ call.fn = "make_rrq_end" /\ HwPnMismatch(call)
  /\ call.old_hash = Junk32
  /\ call.res.fails = 1

\* C17: short first firmware packet.  make_rrq never completes (SHA-256
\* finalized into the hash buffer) without having verified the hardware PN.
C17_PnVerifiedBeforeDone ==
  (call.fn = "make_rrq_end" /\ call.res.done) => call.res.pn_checked

----------------------------------------------------------------------------
(* Properties of the load sequence, under Spec *)

\* C14: stale loader.  The task does not enter UPLOADING from an UPLOAD_PREP whose
\* WRQ("INIT_LOAD.LUS") was left without its ACK(0).
C14_StaleLoader ==
  (cur = ST_UPLOADING /\ pc = "enter") => io.lus # "no_ack0"

\* C15: unsupported software PN.  When the LUR received in UPLOAD_PREP parses and
\* its part number equals no entry of the allow-list, UPLOAD_PREP returns ERROR
\* and the session neither reaches UPLOADING (where the firmware RRQ is issued)
\* nor creates a staging file.
C15_UnsupportedPn ==
  /\ [][(cur = ST_UPLOAD_PREP /\ pc = "run" /\ io'.lur = "ok"
           /\ CStr(lur_file'.load_part_number) \notin SUPPORTED_PNS)
          => ret' = ST_ERROR /\ cur' = ST_ERROR]_vars
  /\ [](CStr(lur_file.load_part_number) \notin SUPPORTED_PNS
          => /\ cur \notin {ST_UPLOADING, ST_VERIFY, ST_SAVE, ST_TEARDOWN}
             /\ ~hist.temp_created /\ ~hist.rrq_completed)

\* a LUR with a part number outside the allow-list was parsed and the task is
\* about to run ERROR
C15_Witness ==
  /\ cur = ST_ERROR /\ pc = "enter" /\ io.lur = "ok"
  /\ CStr(lur_file.load_part_number) = UNKNOWN_PN
  /\ ~hist.temp_created

\* C18: insufficient space is fatal.  A session whose make_rrq stopped because
\* less than MIN_AVAILABLE_SPACE bytes were free never commits the staging file
\* to the final file.
C18_LowSpaceNeverCommits ==
  hist.low_space => ~hist.committed

\* C19: a failed LUR reception is fatal.  When handle_wrq fails in UPLOAD_PREP
\* (name without ".LUR", no socket, no LUR data, LUR rejected by parse_lur) the
\* task goes to ERROR, and UPLOADING is entered only after a handle_wrq that
\* succeeded, in the first session and in every later one.
C19_LurFailureFatal ==
  /\ [][(cur = ST_UPLOAD_PREP /\ pc = "run" /\ io'.lur = "failed")
          => ret' = ST_ERROR /\ cur' = ST_ERROR]_vars
  /\ []((cur = ST_UPLOADING /\ pc = "enter") => io.lur = "ok")

\* handle_wrq failed in a session that follows a completed load
C19_Witness ==
  /\ cur = ST_ERROR /\ pc = "enter" /\ io.lur = "failed"
  /\ final.exists /\ final # File(<<OLD_IMAGE>>) /\ hist.final_before = final

\* C20: the task enters UPLOAD_PREP only after handle_rrq served an RRQ naming
\* ".LUI" (DATA block 1 sent, matching ACK block 1 received).
C20_LuiServedBeforeUploadPrep ==
  (cur = ST_UPLOAD_PREP /\ pc = "enter") => io.lui = "ok"

----------------------------------------------------------------------------
(* Properties of the receive loops and of the handshake, under SpecTftp *)

\* C21: digest of the staged bytes.  While make_rrq receives, the SHA-256
\* context has absorbed exactly the payloads appended to the staging file, in
\* order; when it completes, the hash buffer holds the SHA-256 of the staging
\* file's content.
C21_DigestOfStaged ==
  /\ (call.fn = "make_rrq" /\ call.s.temp_file = File(call.s.temp_file.data)
        /\ call.before.st = "loop")
       => call.s.sha_ctx = ShaFold(mbedtls_sha256_starts, call.s.temp_file.data)
  /\ (call.fn = "make_rrq_end" /\ call.res.done)
       => call.res.hash = Sha256(call.res.temp.data)

\* make_rrq completed after two payloads
C21_Witness ==
  call.fn = "make_rrq_end" /\ call.res.done /\ Len(call.res.temp.data) = 2

\* the last iteration of make_rrq wrote and acknowledged the DATA block it received
FwBlockAccepted(c) ==
  /\ c.before.st = "loop"
  /\ c.rx.k = "pkt" /\ c.rx.opcode = OP_DATA
  /\ Len(c.s.acks) = Len(c.before.acks) + 1
\* the last iteration of handle_wrq received the DATA block it expected
LurBlockAccepted(c) ==
  /\ c.before.st = "loop"
  /\ c.rx.k = "pkt" /\ c.rx.opcode = OP_DATA
  /\ c.rx.block = c.before.expected_block

\* C22: terminal block rule.  The receive loops of make_rrq and handle_wrq end
\* at an accepted DATA block exactly when its payload has fewer than 512 bytes
\* (0 bytes included); after an accepted block of 512 bytes they keep waiting.
C22_TerminalBlock ==
  /\ (call.fn \in {"make_rrq", "make_rrq_end"} /\ FwBlockAccepted(call))
       => (call.s.st = "break") = (FwPayload[call.rx.pay].len < 512)
          /\ (call.s.st = "loop") = (FwPayload[call.rx.pay].len = 512)
  /\ (call.fn \in {"handle_wrq", "handle_wrq_end"} /\ LurBlockAccepted(call))
       => (call.s.st = "out") = (Len(LurPayload[call.rx.pay]) < 512)
          /\ (call.s.st = "loop") = (Len(LurPayload[call.rx.pay]) = 512)

\* make_rrq went on after a block of 512 bytes and stopped at one of 0 bytes
C22_Witness ==
  /\ call.fn = "make_rrq" /\ FwBlockAccepted(call)
  /\ call.before.total_bytes = 512
  /\ FwPayload[call.rx.pay].len = 0
  /\ call.s.st = "break"

\* C24: server TID latching.  The ACK of the first DATA block make_rrq accepts
\* goes to the address that DATA frame came from.
C24_ServerTidLatching ==
  (call.fn \in {"make_rrq", "make_rrq_end"} /\ FwBlockAccepted(call)
     /\ call.before.acks = <<>>)
    => call.s.server_tid_addr = call.rx.from

\* C25: handshake frame validation.  auth_perform_handshake accepts the first
\* DATA frame as the loader's key only when its payload has exactly 32 bytes and
\* equals the expected key.
C25_HandshakeFrameValidation ==
  (call.fn = "auth_perform_handshake" /\ call.i.first.k = "pkt"
     /\ ~call.res.key_refused)
    => /\ call.i.first.len = GSE_KEY_SIZE
       /\ call.i.first.key = call.keys.gse_verify_key

\* C26: handshake ordering.  auth_perform_handshake sets authenticated only when
\* the key frame was accepted, its ACK and DATA(1) with the local key were sent,
\* and a frame with opcode ACK and block 1 was received last.
C26_HandshakeOrdering ==
  (call.fn = "auth_perform_handshake" /\ call.res.authenticated)
    => /\ call.i.first.k = "pkt" /\ call.i.first.key = call.keys.gse_verify_key
       /\ call.i.ack_ok /\ call.i.key_ok
       /\ IsAckFrame([e |-> "rx", r |-> call.i.last], 1)

----------------------------------------------------------------------------
(* Properties of the addresses, the keys and the LUS records, under Spec *)

\* C23: TID restore.  The FINAL_LOAD.LUS of TEARDOWN is sent to the loader
\* address saved on entry to UPLOADING, never to the ephemeral address the
\* firmware and the hash came from.
C23_TidRestore ==
  [][(cur = ST_TEARDOWN /\ pc = "run" /\ io'.lus # "none")
       => io'.lus_to = original_client_addr /\ io'.lus_to # GSE_TID]_vars

\* FINAL_LOAD.LUS went to the main address after the hash had arrived from the
\* ephemeral one
C23_Witness ==
  /\ cur = ST_MAINT_WAIT /\ pc = "enter" /\ io.lus # "none"
  /\ io.lus_to = GSE_MAIN /\ original_client_addr = GSE_MAIN
  /\ final.exists /\ hist.final_before = final

\* C27: key lifetime.  In UPLOAD_PREP, UPLOADING, VERIFY, SAVE, TEARDOWN and
\* ERROR both key buffers of auth_keys are zero.
C27_KeyLifetime ==
  cur \in {ST_UPLOAD_PREP, ST_UPLOADING, ST_VERIFY, ST_SAVE, ST_TEARDOWN, ST_ERROR}
    => auth_keys = ZeroKeys

\* the LUS record r carries status st, counter c and ratio ra
LusIs(r, st, c, ra) ==
  Ntohs(r.status_code) = st /\ Ntohs(r.counter) = c /\ r.load_list_ratio = ra

\* C30: LUS counters.  Within a session the counter of every LUS handed to
\* make_wrq is greater than that of the LUS before it: INIT_LOAD.LUS is the first
\* and carries ACCEPTED_NOT_STARTED, counter 0, ratio "000"; FINAL_LOAD.LUS carries
\* COMPLETED_OK, counter 2, ratio "100" and follows INIT_LOAD.LUS and the commit
\* of SAVE.
C30_LusCounters ==
  /\ [][io'.lus # "none" => Ntohs(io'.lus_data.counter) > hist.lus_counter]_vars
  /\ [][(cur = ST_UPLOAD_PREP /\ pc = "run" /\ io'.lus # "none")
          => /\ LusIs(io'.lus_data, ARINC_STATUS_OP_ACCEPTED_NOT_STARTED, 0, RATIO_000)
             /\ hist.lus_counter = -1]_vars
  /\ [][(cur = ST_TEARDOWN /\ pc = "run" /\ io'.lus # "none")
          => /\ LusIs(io'.lus_data, ARINC_STATUS_OP_COMPLETED_OK, 2, RATIO_100)
             /\ hist.lus_counter = 0
             /\ hist.committed]_vars

\* FINAL_LOAD.LUS was handed to make_wrq and acknowledged
C30_Witness ==
  /\ cur = ST_MAINT_WAIT /\ pc = "enter" /\ io.lus = "ok"
  /\ Ntohs(io.lus_data.counter) = 2

----------------------------------------------------------------------------
(* Properties of upload_failure_count, under SpecAll *)

----------------------------------------------------------------------------
(* Liveness of a load, under SpecHappy *)

\* the session state of a task that waits for a load
SessionReset ==
  /\ ~authenticated /\ upload_failure_count = 0
  /\ lur_file = ZeroLur /\ hash = Zero32 /\ req = ZeroReq
  /\ filename = "NULL" /\ opcode = 0 /\ n = 0

\* C29: happy-path liveness.  When the platform calls succeed and the loader
\* follows the dialog without a lost packet, the task goes from the handshake
\* to UPLOAD_PREP, UPLOADING, VERIFY, SAVE and TEARDOWN, in this order, and
\* comes back to MAINT_WAIT with the session state reset and the final file
\* holding the firmware it received.
C29_HappyPathLiveness ==
  /\ (cur = ST_MAINT_WAIT /\ pc = "handshake") ~> (cur = ST_UPLOAD_PREP)
  /\ (cur = ST_UPLOAD_PREP) ~> (cur = ST_UPLOADING)
  /\ (cur = ST_UPLOADING) ~> (cur = ST_VERIFY /\ temp.exists /\ req.data = Sha256(temp.data))
  /\ (cur = ST_VERIFY) ~> (cur = ST_SAVE)
  /\ (cur = ST_SAVE) ~> (cur = ST_TEARDOWN /\ req.data = Sha256(final.data))
  /\ (cur = ST_TEARDOWN) ~> (cur = ST_MAINT_WAIT /\ pc = "enter" /\ SessionReset
                               /\ final.exists /\ hist.final_before = final)
  /\ [][cur = ST_TEARDOWN => final' = final]_vars
  /\ [][cur' # cur => <<cur, cur'>> \in StrictTransitions /\ cur' # ST_ERROR]_vars

\* back in MAINT_WAIT after a load of two blocks
C29_Witness ==
  /\ cur = ST_MAINT_WAIT /\ pc = "enter" /\ SessionReset
  /\ Len(final.data) = 2 /\ hist.final_before = final

----------------------------------------------------------------------------
(* arinc, auth and the run loop on their own *)

\* the ratio is three ASCII digits that denote a value from 0 to 100
IsDigit(c) == c \in 48..57
RatioValue(r) == (r[1] - 48) * 100 + (r[2] - 48) * 10 + (r[3] - 48)
IsProgressRatio(r) ==
  /\ Len(r) = 3
  /\ \A i \in 1..3 : IsDigit(r[i])
  /\ RatioValue(r) <= 100

\* C31: init_lus succeeds only for a ratio of exactly three ASCII digits with a
\* value from "000" to "100"; for any other ratio it returns an error and
\* produces no record
C31_RatioValidated ==
  call.fn = "init_lus" =>
    /\ call.res.rc = 0 => IsProgressRatio(call.ratio)
    /\ call.res.rc # 0 => call.res.lus = <<>>

\* what the claim calls a buffer parse_lur must reject: fewer than 8 bytes, no
\* header file, a length byte that is missing or declares more than remains
LurNameLen(b) == b[9]
LurPnAt(b) == 10 + LurNameLen(b)
LurRejectable(b) ==
  \/ Len(b) < 8
  \/ Ntohs(SubSeq(b, 7, 8)) = 0
  \/ Len(b) < 9
  \/ LurNameLen(b) > Len(b) - 9
  \/ Len(b) < LurPnAt(b)
  \/ b[LurPnAt(b)] > Len(b) - LurPnAt(b)

\* C32: parse_lur returns an error exactly for a buffer of fewer than 8 bytes, with
\* num_header_files 0, or with a name or part-number length byte that is missing
\* or declares more bytes than remain; otherwise it succeeds with the header file
\* name and the part number equal to the declared bytes; it never reads a byte at
\* or beyond the given length
C32_ParseLur ==
  call.fn = "parse_lur" =>
    LET b == call.buf
        o == call.res.out
    IN
    /\ call.res.rc # 0 <=> LurRejectable(b)
    /\ call.res.rc = 0 =>
          /\ o.header_file_length = LurNameLen(b)
          /\ CStr(o.header_filename) = SubSeq(b, 10, 9 + LurNameLen(b))
          /\ o.load_part_number_length = b[LurPnAt(b)]
          /\ CStr(o.load_part_number) =
                SubSeq(b, LurPnAt(b) + 1, LurPnAt(b) + b[LurPnAt(b)])
    /\ call.read_end <= Len(b)

\* a LUR with a shorter name than the one parsed before, and bytes after its
\* part number, is parsed; and a truncated one is rejected after its name was read
C32_Witness ==
  /\ call.fn = "parse_lur"
  /\ call.res.rc = 0
  /\ call.read_end < Len(call.buf)
  /\ CStr(call.res.out.header_filename) = <<102>>
  /\ Len(CStr(call.res.out.load_part_number)) = 3

\* C33: after auth_write_static_keys succeeds both key files exist and are not
\* empty, and auth_load_keys succeeds and yields exactly the two 32-byte keys
\* written; auth_load_keys fails if either file cannot be opened or yields fewer
\* than 32 bytes
C33_KeyStoreRoundTrip ==
  call.fn = "auth_load_keys" =>
    /\ call.wrote = ESP_OK =>
          /\ call.fs.bc.exists /\ call.fs.bc.data # <<>>
          /\ call.fs.gse.exists /\ call.fs.gse.data # <<>>
          /\ call.res.rc = ESP_OK
          /\ call.res.keys.bc_auth_key = BC_STATIC_KEY_DATA
          /\ call.res.keys.gse_verify_key = GSE_EXPECTED_KEY_DATA
    /\ (\/ ~call.fs.bc.exists \/ Len(call.fs.bc.data) < BC_KEY_SIZE
        \/ ~call.fs.gse.exists \/ Len(call.fs.gse.data) < GSE_KEY_SIZE)
         => call.res.rc # ESP_OK

\* the keys were written over files that held other bytes, and loaded
C33_Witness ==
  /\ call.fn = "auth_load_keys"
  /\ call.wrote = ESP_OK
  /\ call.res.rc = ESP_OK
  /\ call.res.keys.bc_auth_key # call.res.keys.gse_verify_key

C35_BadFrameDropped ==
  call.fn \in {"handle_wrq", "handle_wrq_end"} =>
    /\ (/\ call.before.st = "loop"
        /\ call.rx.k \in {"pkt", "runt"}
        /\ ~LurBlockAccepted(call))
         => /\ call.s.lur_buf = call.before.lur_buf
            /\ call.s.acks = call.before.acks
            /\ call.s.expected_block = call.before.expected_block
            /\ call.s.fails = (call.before.fails + 1) % UINT8_MOD
    /\ Len(call.s.lur_buf) <= LUR_BUF_SIZE
    /\ call.s.st # "overrun"

----------------------------------------------------------------------------
(* Error handling of the states, under Spec *)

\* C36: TEARDOWN goes to ERROR, not to MAINT_WAIT, when FINAL_LOAD.LUS cannot be
\* built or its transfer fails (the WRQ cannot be sent, or ACK(0) or ACK(1) is
\* missing or invalid after the retransmission allowed)
C36_TeardownSendFailure ==
  [][(cur = ST_TEARDOWN /\ pc = "run" /\ io'.lus \in {"no_ack0", "no_ack1"})
       => cur' = ST_ERROR /\ cur' # ST_MAINT_WAIT]_vars

\* C37 (main socket failure): when creating the main UDP socket or binding port
\* 69 fails in the entry of MAINT_WAIT, the task reaches ERROR; it never waits
\* for a handshake on a socket that is not bound
C37_MainSocketFailure ==
  /\ (cur = ST_MAINT_WAIT /\ pc = "run" /\ sock # "bound") ~> (cur = ST_ERROR)
  /\ [](pc = "handshake" => sock = "bound")

\* C38: in UPLOAD_PREP, after INIT_LOAD.LUS was sent, a request received that is
\* not a write request for the LUR is ignored and the task waits for another one:
\* such a frame does not move the task to ERROR
C38_OtherRequestIgnored ==
  [][(/\ cur = ST_UPLOAD_PREP /\ pc = "run"
      /\ io'.lus # "none" /\ n' >= 0
      /\ (opcode' # OP_WRQ \/ ~StrStr(CStr(req'.request), DOT_LUR)))
       => cur' = ST_UPLOAD_PREP]_vars

----------------------------------------------------------------------------
(* Transfer sockets and the failure counter, under SpecAll *)

\* C39: every return of handle_rrq and handle_wrq leaves the transfer socket it
\* opened closed (none was opened when the file name is rejected); one is open
\* while handle_wrq receives, and none is open when a step of the task is over
C39_TransferSocketClosed ==
  /\ io.eph # "open"
  /\ call.fn = "handle_rrq" =>
        call.res.transfer_sock = IF call.res.rejected THEN "none" ELSE "closed"
  /\ call.fn = "handle_wrq" => call.s.transfer_sock = "open"
  /\ call.fn = "handle_wrq_end" => call.res.transfer_sock = "closed"

\* UPLOAD_PREP is over, the LUR did not parse, and the transfer socket is closed
C39_Witness ==
  /\ ret = ST_ERROR /\ cur = ST_ERROR /\ pc = "enter"
  /\ io.lur = "failed" /\ io.eph = "closed"
  /\ lur_file.header_filename # ZeroLur.header_filename

\* C40: the 8-bit upload_failure_count never wraps around: what handle_wrq has
\* added to it is the number of frames it counted, so a reception of the LUR with
\* three or more such frames ends in ERROR and not in UPLOADING
C40_CounterNeverWraps ==
  call.fn \in {"handle_wrq", "handle_wrq_end"} =>
    /\ call.s.fails = call.s.faults
    /\ call.s.faults > MAX_UPLOAD_FAILURES
         => bc_task_policy(ST_UPLOADING, call.s.fails) = ST_ERROR

====
